---- MODULE Spec2Model ----
(***************************************************************************)
(* A model of the growable vector of src/src/vec.c (interface in           *)
(* src/include/vec.h).                                                     *)
(*                                                                         *)
(* The state is the caller's pointer variables (ptr), the heap of vec_t    *)
(* structures they point to (heap), and, for the last call made, its       *)
(* arguments (op), the state it started from (pre), the status it returned *)
(* (status), what it wrote to its output argument (out), whether it        *)
(* replaced the storage (realloc) and whether it ran into undefined        *)
(* behaviour (fault).  Every public function of vec.c is an operator from  *)
(* a memory [heap, ptr] and the call's arguments to a result; an action    *)
(* applies one call.                                                       *)
(*                                                                         *)
(* An element is an opaque block of elem_size bytes; it is modelled by one *)
(* value of Values.  The storage of a vector is modelled by the sequence   *)
(* of its written slots; slots past it hold unspecified bytes (JUNK).      *)
(***************************************************************************)
EXTENDS Integers, Sequences, FiniteSets, TLC

(* ------------------------------ bounds -------------------------------- *)

\* Width of int in bits (32 in the build, scaled down); size_t is twice as wide.
IntBits == 8

\* Longest vector the specifications of short vectors build by insertion.
MaxLen == 3

\* Most pushes, and most pops, of a recorded run of pushes and pops.
MaxRun == 2

\* Longest vector the specification of cloned vectors builds by pushes.
MaxPair == 2

(* ----------------------------- constants ------------------------------ *)

INT_MAX == 2^(IntBits - 1) - 1

\* size_t arithmetic is modulo SIZE_MOD.
SIZE_MOD == 2^(2 * IntBits)

SHRINK_POLICY == 4

SHRINK_FACTOR == 2

GROWTH_POLICY == 1

GROWTH_FACTOR == 2

MIN_CAPACITY == 16

MAX_CAPACITY == INT_MAX

MIN_DATA_SIZE == 1

MAX_DATA_SIZE == INT_MAX

VEC_MAGIC == "F3EDB4BE"

VEC_ERR_OK == 0

VEC_ERR_IOOB == 1

VEC_ERR_NULLPTR == 2

VEC_ERR_INVPTR == 3

VEC_ERR_INVOP == 4

VEC_ERR_NOMEM == 5

VEC_ERR_COUNT == 6

\* The printable values of vec_err_t, as the array lists them.
VEC_ERR_MSG ==
    <<"VEC_ERR_OK", "VEC_ERR_IOOB", "VEC_ERR_NULLPTR", "VEC_ERR_INVPTR",
      "VEC_ERR_INVOP", "VEC_ERR_INVOP", "VEC_ERR_NOMEM">>

\* The null pointer.
NULL == "NULL"

\* The content of a slot or of a variable that was never written.
JUNK == "junk"

\* The element values the callers store.
Values == {"x", "y"}

\* The caller's pointer variables (vec_t* a, *b).
Slots == {"a", "b"}

\* Addresses malloc hands out for vec_t structures, in the order it tries them.
AddrOrder == <<"m1", "m2", "m3">>

Addrs == {AddrOrder[i] : i \in DOMAIN AddrOrder}

\* Storage blocks malloc hands out for elems, in the order it tries them.
BlockOrder == <<"s1", "s2", "s3">>

\* Memory that is not a vector: "f0" and "f1" hold another tag (with a len
\* field reading 0 and 1), "fn" holds the tag and a NULL elems pointer.
Foreign ==
    [f0 |-> [magic |-> "00000000", len |-> 0, capacity |-> 0, elem_size |-> 1,
             elems_null |-> FALSE, block |-> NULL, elems |-> <<>>],
     f1 |-> [magic |-> "00000000", len |-> 1, capacity |-> 0, elem_size |-> 1,
             elems_null |-> FALSE, block |-> NULL, elems |-> <<>>],
     fn |-> [magic |-> VEC_MAGIC, len |-> 0, capacity |-> 0, elem_size |-> 1,
             elems_null |-> TRUE, block |-> NULL, elems |-> <<>>]]

ForeignPtrs == DOMAIN Foreign

(* ------------------------------ helpers ------------------------------- *)

Min(a, b) == IF a < b THEN a ELSE b

Max(a, b) == IF a > b THEN a ELSE b

\* size_t subtraction: wraps below zero.
SizeSub(a, b) == (a - b + SIZE_MOD) % SIZE_MOD

\* The first n slots of a storage.
Take(e, n) == SubSeq(e, 1, Min(n, Len(e)))

\* Slot i (from 0) of a storage; a slot never written reads as JUNK.
Slot(e, i) == IF i < Len(e) THEN e[i + 1] ELSE JUNK

\* memcpy/memmove of n slots from slot s to slot d of the same storage.
MemMove(e, d, s, n) ==
    [i \in 1..Max(Len(e), IF n > 0 THEN d + n ELSE 0) |->
        IF i - 1 >= d /\ i - 1 < d + n THEN Slot(e, s + (i - 1 - d))
                                       ELSE Slot(e, i - 1)]

\* memcpy of one element x to slot i.
Store(e, i, x) ==
    [k \in 1..Max(Len(e), i + 1) |-> IF k - 1 = i THEN x ELSE Slot(e, k - 1)]

\* The struct vec a pointer leads to.
Deref(m, h) == IF h \in DOMAIN m.heap THEN m.heap[h] ELSE Foreign[h]

\* malloc of a struct vec: the first address not in use.
FreshAddr(heap) ==
    AddrOrder[CHOOSE i \in DOMAIN AddrOrder :
        /\ AddrOrder[i] \notin DOMAIN heap
        /\ \A j \in 1..(i - 1) : AddrOrder[j] \in DOMAIN heap]

\* malloc of a storage: the first block no struct vec holds.
FreshBlock(heap) ==
    BlockOrder[CHOOSE i \in DOMAIN BlockOrder :
        /\ \A a \in DOMAIN heap : heap[a].block # BlockOrder[i]
        /\ \A j \in 1..(i - 1) : \E a \in DOMAIN heap : heap[a].block = BlockOrder[j]]

\* free of a struct vec and its storage.
Release(heap, a) == [x \in (DOMAIN heap) \ {a} |-> heap[x]]

\* The output argument before a call writes it.
NoOut == [elem |-> JUNK, size |-> 0, flag |-> FALSE, written |-> FALSE]

\* A call's result: status, memory, output, reallocation, fault.
Ret(m, st) ==
    [st |-> st, heap |-> m.heap, ptr |-> m.ptr, out |-> NoOut, re |-> FALSE,
     fault |-> "none"]

\* A call that dereferences a null or wild pointer: the process is killed.
Segv(m) ==
    [st |-> VEC_ERR_OK, heap |-> m.heap, ptr |-> m.ptr, out |-> NoOut, re |-> FALSE,
     fault |-> "segv"]

\* A result with the struct at h replaced by o.  The elements are in the block
\* elems points to: a struct that points to the same block reads what was
\* written through h.
WithObj(m, h, st, o, re) ==
    [st |-> st,
     heap |-> [a \in DOMAIN m.heap |->
                 IF a = h THEN o
                 ELSE IF m.heap[a].block = o.block
                 THEN [m.heap[a] EXCEPT
                         !.elems = [i \in 1..m.heap[a].len |-> Slot(o.elems, i - 1)]]
                 ELSE m.heap[a]],
     ptr |-> m.ptr, out |-> NoOut, re |-> re, fault |-> "none"]

OutElem(x) == [elem |-> x, size |-> 0, flag |-> FALSE, written |-> TRUE]

OutSize(n) == [elem |-> JUNK, size |-> n, flag |-> FALSE, written |-> TRUE]

OutFlag(b) == [elem |-> JUNK, size |-> 0, flag |-> b, written |-> TRUE]

(* ------------------------- private functions -------------------------- *)

vec_validate_ptr(m, h) ==
    IF h = NULL THEN VEC_ERR_NULLPTR
    ELSE IF Deref(m, h).magic # VEC_MAGIC THEN VEC_ERR_INVPTR
    ELSE IF Deref(m, h).elems_null THEN VEC_ERR_NULLPTR
    ELSE VEC_ERR_OK

\* vec_reallocate that commits the new capacity before it looks at realloc's
\* answer.
vec_reallocate_commit_first(o, capacity, ok) ==
    [st |-> IF ok THEN VEC_ERR_OK ELSE VEC_ERR_NOMEM,
     o  |-> [o EXCEPT !.elems = Take(o.elems, capacity),
                      !.capacity = capacity,
                      !.len = IF o.len > capacity THEN capacity ELSE o.len],
     re |-> ok]

\* realloc of the storage to capacity slots; ok: the allocator's answer.  The
\* block realloc returns takes the place of the one it was given.
vec_reallocate(o, capacity, ok) ==
    IF ~ok THEN [st |-> VEC_ERR_NOMEM, o |-> o, re |-> FALSE]
    ELSE [st |-> VEC_ERR_OK,
          o  |-> [o EXCEPT !.elems = Take(o.elems, capacity),
                           !.capacity = capacity,
                           !.len = IF o.len > capacity THEN capacity ELSE o.len],
          re |-> TRUE]

\* vec_check_grow without the MIN_CAPACITY floor.
vec_check_grow_no_floor(o, ok) ==
    IF o.len < o.capacity * GROWTH_POLICY
    THEN [st |-> VEC_ERR_OK, o |-> o, re |-> FALSE]
    ELSE IF \/ o.capacity > MAX_CAPACITY \div GROWTH_FACTOR
            \/ o.capacity * GROWTH_FACTOR > MAX_CAPACITY
    THEN [st |-> VEC_ERR_INVOP, o |-> o, re |-> FALSE]
    ELSE vec_reallocate(o, o.capacity * GROWTH_FACTOR, ok)

\* vec_check_grow that grows to MAX_CAPACITY when doubling would pass it.
vec_check_grow_clamped(o, ok) ==
    IF o.len < o.capacity * GROWTH_POLICY
    THEN [st |-> VEC_ERR_OK, o |-> o, re |-> FALSE]
    ELSE IF o.capacity >= MAX_CAPACITY
    THEN [st |-> VEC_ERR_INVOP, o |-> o, re |-> FALSE]
    ELSE LET new_capacity == Min(o.capacity * GROWTH_FACTOR, MAX_CAPACITY)
         IN  vec_reallocate(o, IF MIN_CAPACITY > new_capacity THEN MIN_CAPACITY
                                                              ELSE new_capacity, ok)

\* vec_check_grow that grows as soon as one slot is left.
vec_check_grow_eager(o, ok) ==
    IF o.len + 1 < o.capacity * GROWTH_POLICY
    THEN [st |-> VEC_ERR_OK, o |-> o, re |-> FALSE]
    ELSE IF \/ o.capacity > MAX_CAPACITY \div GROWTH_FACTOR
            \/ o.capacity * GROWTH_FACTOR > MAX_CAPACITY
    THEN [st |-> VEC_ERR_INVOP, o |-> o, re |-> FALSE]
    ELSE LET new_capacity == o.capacity * GROWTH_FACTOR
         IN  vec_reallocate(o, IF MIN_CAPACITY > new_capacity THEN MIN_CAPACITY
                                                              ELSE new_capacity, ok)

\* vec_check_grow that adds MIN_CAPACITY slots instead of doubling.
vec_check_grow_additive(o, ok) ==
    IF o.len < o.capacity * GROWTH_POLICY
    THEN [st |-> VEC_ERR_OK, o |-> o, re |-> FALSE]
    ELSE IF \/ o.capacity > MAX_CAPACITY \div GROWTH_FACTOR
            \/ o.capacity * GROWTH_FACTOR > MAX_CAPACITY
    THEN [st |-> VEC_ERR_INVOP, o |-> o, re |-> FALSE]
    ELSE vec_reallocate(o, o.capacity + MIN_CAPACITY, ok)

vec_check_grow(o, ok) ==
    IF o.len < o.capacity * GROWTH_POLICY
    THEN [st |-> VEC_ERR_OK, o |-> o, re |-> FALSE]
    ELSE IF \/ o.capacity > MAX_CAPACITY \div GROWTH_FACTOR
            \/ o.capacity * GROWTH_FACTOR > MAX_CAPACITY
    THEN [st |-> VEC_ERR_INVOP, o |-> o, re |-> FALSE]
    ELSE LET new_capacity == o.capacity * GROWTH_FACTOR
         IN  vec_reallocate(o, IF MIN_CAPACITY > new_capacity THEN MIN_CAPACITY
                                                              ELSE new_capacity, ok)

\* vec_check_shrink with the threshold at half of the capacity, inclusive.
vec_check_shrink_half(o, ok) ==
    IF o.len > o.capacity \div SHRINK_FACTOR \/ o.capacity <= MIN_CAPACITY
    THEN [st |-> VEC_ERR_OK, o |-> o, re |-> FALSE]
    ELSE LET new_capacity == o.capacity \div SHRINK_FACTOR
         IN  vec_reallocate(o, IF new_capacity < MIN_CAPACITY THEN MIN_CAPACITY
                                                              ELSE new_capacity, ok)

\* vec_check_shrink that also shrinks at len = capacity / SHRINK_POLICY.
vec_check_shrink_inclusive(o, ok) ==
    IF o.len > o.capacity \div SHRINK_POLICY \/ o.capacity <= MIN_CAPACITY
    THEN [st |-> VEC_ERR_OK, o |-> o, re |-> FALSE]
    ELSE LET new_capacity == o.capacity \div SHRINK_FACTOR
         IN  vec_reallocate(o, IF new_capacity < MIN_CAPACITY THEN MIN_CAPACITY
                                                              ELSE new_capacity, ok)

\* vec_check_shrink with SHRINK_POLICY and SHRINK_FACTOR exchanged.
vec_check_shrink_exchanged(o, ok) ==
    IF o.len >= o.capacity \div SHRINK_FACTOR \/ o.capacity <= MIN_CAPACITY
    THEN [st |-> VEC_ERR_OK, o |-> o, re |-> FALSE]
    ELSE LET new_capacity == o.capacity \div SHRINK_POLICY
         IN  vec_reallocate(o, IF new_capacity < MIN_CAPACITY THEN MIN_CAPACITY
                                                              ELSE new_capacity, ok)

vec_check_shrink(o, ok) ==
    IF o.len >= o.capacity \div SHRINK_POLICY \/ o.capacity <= MIN_CAPACITY
    THEN [st |-> VEC_ERR_OK, o |-> o, re |-> FALSE]
    ELSE LET new_capacity == o.capacity \div SHRINK_FACTOR
         IN  vec_reallocate(o, IF new_capacity < MIN_CAPACITY THEN MIN_CAPACITY
                                                              ELSE new_capacity, ok)

\* Reads slot idx for the caller.
vec_write_var(o, idx) == Slot(o.elems, idx)

\* Writes src to slot idx.
vec_write_idx(o, idx, src) == [o EXCEPT !.elems = Store(o.elems, idx, src)]

\* Slots at or past len hold unspecified content.
Trim(o) == [o EXCEPT !.elems = Take(o.elems, o.len)]

\* A result with the struct at h replaced by o, unless o holds more written
\* slots than its storage has: a write landed outside the allocation.
Checked(m, h, st, o, re) ==
    IF Len(o.elems) > o.capacity
    THEN [WithObj(m, h, st, Trim([o EXCEPT !.elems = Take(o.elems, o.capacity)]), re)
            EXCEPT !.fault = "overflow"]
    ELSE WithObj(m, h, st, Trim(o), re)

(* -------------------------- memory management ------------------------- *)

\* vec_make that does not look at what the pointer variable holds.
vec_make_overwrite(m, pp, elem_size, capacity, al) ==
    IF pp = NULL THEN Ret(m, VEC_ERR_NULLPTR)
    ELSE IF elem_size < MIN_DATA_SIZE \/ elem_size > MAX_DATA_SIZE
    THEN Ret(m, VEC_ERR_INVOP)
    ELSE IF ~al[1] THEN Ret(m, VEC_ERR_NOMEM)
    ELSE IF ~al[2] THEN Ret(m, VEC_ERR_NOMEM)
    ELSE LET a == FreshAddr(m.heap)
             o == [magic |-> VEC_MAGIC, len |-> 0,
                   capacity |-> IF capacity < MIN_CAPACITY THEN MIN_CAPACITY
                                                           ELSE capacity,
                   elem_size |-> elem_size, elems_null |-> FALSE,
                   block |-> FreshBlock(m.heap), elems |-> <<>>]
         IN  [st |-> VEC_ERR_OK, heap |-> (a :> o) @@ m.heap,
              ptr |-> [m.ptr EXCEPT ![pp] = a], out |-> NoOut, re |-> FALSE,
              fault |-> "none"]

\* al[1], al[2]: the allocator's answers to the two mallocs.
vec_make(m, pp, elem_size, capacity, al) ==
    IF pp = NULL THEN Ret(m, VEC_ERR_NULLPTR)
    ELSE IF elem_size < MIN_DATA_SIZE \/ elem_size > MAX_DATA_SIZE
    THEN Ret(m, VEC_ERR_INVOP)
    ELSE IF m.ptr[pp] # NULL THEN Ret(m, VEC_ERR_INVOP)
    ELSE IF ~al[1] THEN Ret(m, VEC_ERR_NOMEM)
    ELSE IF ~al[2] THEN Ret(m, VEC_ERR_NOMEM)
    ELSE LET a == FreshAddr(m.heap)
             o == [magic |-> VEC_MAGIC, len |-> 0,
                   capacity |-> IF capacity < MIN_CAPACITY THEN MIN_CAPACITY
                                                           ELSE capacity,
                   elem_size |-> elem_size, elems_null |-> FALSE,
                   block |-> FreshBlock(m.heap), elems |-> <<>>]
         IN  [st |-> VEC_ERR_OK, heap |-> (a :> o) @@ m.heap,
              ptr |-> [m.ptr EXCEPT ![pp] = a], out |-> NoOut, re |-> FALSE,
              fault |-> "none"]

\* vec_resize that takes the capacity MIN_CAPACITY.
vec_resize_inclusive(m, h, capacity, ok) ==
    LET vec_status == vec_validate_ptr(m, h) IN
    IF vec_status # VEC_ERR_OK THEN Ret(m, vec_status)
    ELSE IF capacity < MIN_CAPACITY \/ capacity > MAX_CAPACITY
    THEN Ret(m, VEC_ERR_INVOP)
    ELSE LET r == vec_reallocate(Deref(m, h), capacity, ok)
         IN  WithObj(m, h, r.st, r.o, r.re)

vec_resize(m, h, capacity, ok) ==
    LET vec_status == vec_validate_ptr(m, h) IN
    IF vec_status # VEC_ERR_OK THEN Ret(m, vec_status)
    ELSE IF capacity <= MIN_CAPACITY \/ capacity > MAX_CAPACITY
    THEN Ret(m, VEC_ERR_INVOP)
    ELSE LET r == vec_reallocate(Deref(m, h), capacity, ok)
         IN  WithObj(m, h, r.st, r.o, r.re)

\* vec_shrink_to_fit that keeps MIN_CAPACITY slots or more.
vec_shrink_to_fit_floor(m, h, ok) ==
    LET vec_status == vec_validate_ptr(m, h) IN
    IF vec_status # VEC_ERR_OK THEN Ret(m, vec_status)
    ELSE IF Deref(m, h).len = 0 THEN Ret(m, VEC_ERR_INVOP)
    ELSE IF Deref(m, h).len = Deref(m, h).capacity THEN Ret(m, VEC_ERR_OK)
    ELSE LET r == vec_reallocate(Deref(m, h), Max(Deref(m, h).len, MIN_CAPACITY), ok)
         IN  WithObj(m, h, r.st, r.o, r.re)

vec_shrink_to_fit(m, h, ok) ==
    LET vec_status == vec_validate_ptr(m, h) IN
    IF vec_status # VEC_ERR_OK THEN Ret(m, vec_status)
    ELSE IF Deref(m, h).len = 0 THEN Ret(m, VEC_ERR_INVOP)
    ELSE IF Deref(m, h).len = Deref(m, h).capacity THEN Ret(m, VEC_ERR_OK)
    ELSE LET r == vec_reallocate(Deref(m, h), Deref(m, h).len, ok)
         IN  WithObj(m, h, r.st, r.o, r.re)

\* vec_clear that replaces the storage whatever its capacity.
vec_clear_replace_always(m, h, ok) ==
    LET vec_status == vec_validate_ptr(m, h) IN
    IF vec_status # VEC_ERR_OK THEN Ret(m, vec_status)
    ELSE IF ~ok THEN Ret(m, VEC_ERR_NOMEM)
    ELSE WithObj(m, h, VEC_ERR_OK,
                 [Deref(m, h) EXCEPT !.len = 0, !.capacity = MIN_CAPACITY,
                                     !.block = FreshBlock(m.heap),
                                     !.elems = <<>>], TRUE)

vec_clear(m, h, ok) ==
    LET vec_status == vec_validate_ptr(m, h) IN
    IF vec_status # VEC_ERR_OK THEN Ret(m, vec_status)
    ELSE IF Deref(m, h).capacity <= MIN_CAPACITY
    THEN WithObj(m, h, VEC_ERR_OK, Trim([Deref(m, h) EXCEPT !.len = 0]), FALSE)
    ELSE IF ~ok THEN Ret(m, VEC_ERR_NOMEM)
    ELSE WithObj(m, h, VEC_ERR_OK,
                 [Deref(m, h) EXCEPT !.len = 0, !.capacity = MIN_CAPACITY,
                                     !.block = FreshBlock(m.heap),
                                     !.elems = <<>>], TRUE)

\* vec_clone that leaves the length of a destination it does not replace.
vec_clone_keep_len(m, src, dstpp, al) ==
    LET vec_status == vec_validate_ptr(m, src) IN
    IF vec_status # VEC_ERR_OK THEN Ret(m, vec_status)
    ELSE IF dstpp = NULL THEN Ret(m, VEC_ERR_NULLPTR)
    ELSE
    LET dst == m.ptr[dstpp]
        dst_status == IF dst # NULL THEN vec_validate_ptr(m, dst) ELSE VEC_ERR_OK
        s == Deref(m, src)
    IN
    IF dst_status # VEC_ERR_OK THEN Ret(m, dst_status)
    ELSE IF dst # NULL /\ (Deref(m, dst).elem_size # s.elem_size \/ dst = src)
    THEN Ret(m, VEC_ERR_INVOP)
    ELSE IF dst = NULL \/ Deref(m, dst).capacity < s.len
    THEN LET made == vec_make([heap |-> m.heap, ptr |-> ("clone" :> NULL) @@ m.ptr],
                              "clone", s.elem_size, s.len, al)
         IN  IF made.st # VEC_ERR_OK THEN Ret(m, made.st)
             ELSE LET clone == made.ptr["clone"]
                      heap1 == IF dst # NULL THEN Release(made.heap, dst)
                                             ELSE made.heap
                      m2    == [heap |-> heap1, ptr |-> [m.ptr EXCEPT ![dstpp] = clone]]
                  IN  Checked(m2, clone, VEC_ERR_OK,
                              [heap1[clone] EXCEPT !.elems = Take(s.elems, s.len),
                                                   !.len = s.len], TRUE)
    ELSE Checked(m, dst, VEC_ERR_OK,
                 [Deref(m, dst) EXCEPT
                     !.elems = [i \in 1..Max(Len(Deref(m, dst).elems), s.len) |->
                                  IF i <= s.len THEN Slot(s.elems, i - 1)
                                  ELSE Slot(Deref(m, dst).elems, i - 1)]],
                 FALSE)

\* vec_clone that points the new destination to the storage of the source.
vec_clone_shallow(m, src, dstpp, al) ==
    LET vec_status == vec_validate_ptr(m, src) IN
    IF vec_status # VEC_ERR_OK THEN Ret(m, vec_status)
    ELSE IF dstpp = NULL THEN Ret(m, VEC_ERR_NULLPTR)
    ELSE
    LET dst == m.ptr[dstpp]
        dst_status == IF dst # NULL THEN vec_validate_ptr(m, dst) ELSE VEC_ERR_OK
        s == Deref(m, src)
    IN
    IF dst_status # VEC_ERR_OK THEN Ret(m, dst_status)
    ELSE IF dst # NULL /\ (Deref(m, dst).elem_size # s.elem_size \/ dst = src)
    THEN Ret(m, VEC_ERR_INVOP)
    ELSE IF dst = NULL \/ Deref(m, dst).capacity < s.len
    THEN LET made == vec_make([heap |-> m.heap, ptr |-> ("clone" :> NULL) @@ m.ptr],
                              "clone", s.elem_size, s.len, al)
         IN  IF made.st # VEC_ERR_OK THEN Ret(m, made.st)
             ELSE LET clone == made.ptr["clone"]
                      heap1 == IF dst # NULL THEN Release(made.heap, dst)
                                             ELSE made.heap
                      m2    == [heap |-> heap1, ptr |-> [m.ptr EXCEPT ![dstpp] = clone]]
                  IN  Checked(m2, clone, VEC_ERR_OK,
                              [heap1[clone] EXCEPT !.elems = Take(s.elems, s.len),
                                                   !.block = s.block,
                                                   !.len = s.len], TRUE)
    ELSE Checked(m, dst, VEC_ERR_OK,
                 [Deref(m, dst) EXCEPT
                     !.elems = [i \in 1..Max(Len(Deref(m, dst).elems), s.len) |->
                                  IF i <= s.len THEN Slot(s.elems, i - 1)
                                  ELSE Slot(Deref(m, dst).elems, i - 1)],
                     !.len = s.len], FALSE)

\* The local variable "clone" of vec_clone is a pointer variable of its own.
vec_clone(m, src, dstpp, al) ==
    LET vec_status == vec_validate_ptr(m, src) IN
    IF vec_status # VEC_ERR_OK THEN Ret(m, vec_status)
    ELSE IF dstpp = NULL THEN Ret(m, VEC_ERR_NULLPTR)
    ELSE
    LET dst == m.ptr[dstpp]
        dst_status == IF dst # NULL THEN vec_validate_ptr(m, dst) ELSE VEC_ERR_OK
        s == Deref(m, src)
    IN
    IF dst_status # VEC_ERR_OK THEN Ret(m, dst_status)
    ELSE IF dst # NULL /\ (Deref(m, dst).elem_size # s.elem_size \/ dst = src)
    THEN Ret(m, VEC_ERR_INVOP)
    ELSE IF dst = NULL \/ Deref(m, dst).capacity < s.len
    THEN LET made == vec_make([heap |-> m.heap, ptr |-> ("clone" :> NULL) @@ m.ptr],
                              "clone", s.elem_size, s.len, al)
         IN  IF made.st # VEC_ERR_OK THEN Ret(m, made.st)
             ELSE LET clone == made.ptr["clone"]
                      heap1 == IF dst # NULL THEN Release(made.heap, dst)
                                             ELSE made.heap
                      m2    == [heap |-> heap1, ptr |-> [m.ptr EXCEPT ![dstpp] = clone]]
                  IN  Checked(m2, clone, VEC_ERR_OK,
                              [heap1[clone] EXCEPT !.elems = Take(s.elems, s.len),
                                                   !.len = s.len], TRUE)
    ELSE Checked(m, dst, VEC_ERR_OK,
                 [Deref(m, dst) EXCEPT
                     !.elems = [i \in 1..Max(Len(Deref(m, dst).elems), s.len) |->
                                  IF i <= s.len THEN Slot(s.elems, i - 1)
                                  ELSE Slot(Deref(m, dst).elems, i - 1)],
                     !.len = s.len], FALSE)

\* vec_free: both blocks are freed and the caller's pointer is set to NULL.
vec_free(m, pp) ==
    [heap |-> Release(m.heap, m.ptr[pp]), ptr |-> [m.ptr EXCEPT ![pp] = NULL]]

vec_destroy(m, pp) ==
    IF pp = NULL THEN Ret(m, VEC_ERR_NULLPTR)
    ELSE LET vec_status == vec_validate_ptr(m, m.ptr[pp]) IN
         IF vec_status # VEC_ERR_OK THEN Ret(m, vec_status)
         ELSE Ret(vec_free(m, pp), VEC_ERR_OK)

(* --------------------------- write operations ------------------------- *)

\* vec_set that copies to old after it has written src to idx.
vec_set_late_old(m, h, idx, src, old) ==
    LET vec_status == vec_validate_ptr(m, h) IN
    IF vec_status # VEC_ERR_OK THEN Ret(m, vec_status)
    ELSE IF src = NULL THEN Ret(m, VEC_ERR_NULLPTR)
    ELSE IF idx >= Deref(m, h).len THEN Ret(m, VEC_ERR_IOOB)
    ELSE [Checked(m, h, VEC_ERR_OK, vec_write_idx(Deref(m, h), idx, src), FALSE)
            EXCEPT !.out = IF old
                           THEN OutElem(vec_write_var(vec_write_idx(Deref(m, h), idx, src),
                                                      idx))
                           ELSE NoOut]

\* src: the value src points to, or NULL; old: whether old is non-NULL (it is
\* then a variable of its own, not the one src points to).
vec_set(m, h, idx, src, old) ==
    LET vec_status == vec_validate_ptr(m, h) IN
    IF vec_status # VEC_ERR_OK THEN Ret(m, vec_status)
    ELSE IF src = NULL THEN Ret(m, VEC_ERR_NULLPTR)
    ELSE IF idx >= Deref(m, h).len THEN Ret(m, VEC_ERR_IOOB)
    ELSE [Checked(m, h, VEC_ERR_OK, vec_write_idx(Deref(m, h), idx, src), FALSE)
            EXCEPT !.out = IF old THEN OutElem(vec_write_var(Deref(m, h), idx))
                                  ELSE NoOut]

\* vec_swap that fills the temporary after it has written to idx1.
vec_swap_late_temp(m, h, idx1, idx2, ok) ==
    LET vec_status == vec_validate_ptr(m, h) IN
    IF vec_status # VEC_ERR_OK THEN Ret(m, vec_status)
    ELSE IF idx1 = idx2 THEN Ret(m, VEC_ERR_INVOP)
    ELSE IF idx1 >= Deref(m, h).len \/ idx2 >= Deref(m, h).len
    THEN Ret(m, VEC_ERR_IOOB)
    ELSE IF ~ok THEN Ret(m, VEC_ERR_NOMEM)
    ELSE LET o    == Deref(m, h)
             o1   == vec_write_idx(o, idx1, vec_write_var(o, idx2))
             temp == vec_write_var(o1, idx1)
             o2   == vec_write_idx(o1, idx2, temp)
         IN  Checked(m, h, VEC_ERR_OK, o2, FALSE)

\* ok: the allocator's answer to the malloc of the temporary.
vec_swap(m, h, idx1, idx2, ok) ==
    LET vec_status == vec_validate_ptr(m, h) IN
    IF vec_status # VEC_ERR_OK THEN Ret(m, vec_status)
    ELSE IF idx1 = idx2 THEN Ret(m, VEC_ERR_INVOP)
    ELSE IF idx1 >= Deref(m, h).len \/ idx2 >= Deref(m, h).len
    THEN Ret(m, VEC_ERR_IOOB)
    ELSE IF ~ok THEN Ret(m, VEC_ERR_NOMEM)
    ELSE LET o    == Deref(m, h)
             temp == vec_write_var(o, idx1)
             o1   == vec_write_idx(o, idx1, vec_write_var(o, idx2))
             o2   == vec_write_idx(o1, idx2, temp)
         IN  Checked(m, h, VEC_ERR_OK, o2, FALSE)

\* vec_insert that runs the grow check before it looks at idx.
vec_insert_grow_first(m, h, idx, src, ok) ==
    LET vec_status == vec_validate_ptr(m, h) IN
    IF vec_status # VEC_ERR_OK THEN Ret(m, vec_status)
    ELSE IF src = NULL THEN Ret(m, VEC_ERR_NULLPTR)
    ELSE LET g == vec_check_grow(Deref(m, h), ok) IN
         IF g.st # VEC_ERR_OK THEN Ret(m, g.st)
         ELSE IF idx > g.o.len THEN WithObj(m, h, VEC_ERR_IOOB, g.o, g.re)
         ELSE LET moved == [g.o EXCEPT
                              !.elems = MemMove(g.o.elems, idx + 1, idx, g.o.len - idx),
                              !.len = g.o.len + 1]
              IN  Checked(m, h, VEC_ERR_OK, vec_write_idx(moved, idx, src), g.re)

\* vec_insert that moves one element less than there are from idx on.
vec_insert_short_shift(m, h, idx, src, ok) ==
    LET vec_status == vec_validate_ptr(m, h) IN
    IF vec_status # VEC_ERR_OK THEN Ret(m, vec_status)
    ELSE IF src = NULL THEN Ret(m, VEC_ERR_NULLPTR)
    ELSE IF idx > Deref(m, h).len THEN Ret(m, VEC_ERR_IOOB)
    ELSE LET g == vec_check_grow(Deref(m, h), ok) IN
         IF g.st # VEC_ERR_OK THEN Ret(m, g.st)
         ELSE LET moved == [g.o EXCEPT
                              !.elems = MemMove(g.o.elems, idx + 1, idx,
                                                Max(g.o.len - idx - 1, 0)),
                              !.len = g.o.len + 1]
              IN  Checked(m, h, VEC_ERR_OK, vec_write_idx(moved, idx, src), g.re)

vec_insert(m, h, idx, src, ok) ==
    LET vec_status == vec_validate_ptr(m, h) IN
    IF vec_status # VEC_ERR_OK THEN Ret(m, vec_status)
    ELSE IF src = NULL THEN Ret(m, VEC_ERR_NULLPTR)
    ELSE IF idx > Deref(m, h).len THEN Ret(m, VEC_ERR_IOOB)
    ELSE LET g == vec_check_grow(Deref(m, h), ok) IN
         IF g.st # VEC_ERR_OK THEN Ret(m, g.st)
         ELSE LET moved == [g.o EXCEPT
                              !.elems = MemMove(g.o.elems, idx + 1, idx, g.o.len - idx),
                              !.len = g.o.len + 1]
              IN  Checked(m, h, VEC_ERR_OK, vec_write_idx(moved, idx, src), g.re)

\* vec_remove that copies to removed after it has moved the elements.
vec_remove_late_copy(m, h, idx, removed, ok) ==
    LET vec_status == vec_validate_ptr(m, h) IN
    IF vec_status # VEC_ERR_OK THEN Ret(m, vec_status)
    ELSE IF idx >= Deref(m, h).len THEN Ret(m, VEC_ERR_IOOB)
    ELSE LET o     == Deref(m, h)
             moved == IF idx # o.len - 1
                      THEN MemMove(o.elems, idx, idx + 1, o.len - idx - 1)
                      ELSE o.elems
             o1    == Trim([o EXCEPT !.elems = moved, !.len = o.len - 1])
             s     == vec_check_shrink(o1, ok)
         IN  [WithObj(m, h, s.st, s.o, s.re)
                EXCEPT !.out = IF removed
                               THEN OutElem(vec_write_var([o EXCEPT !.elems = moved], idx))
                               ELSE NoOut]

\* removed: whether removed is non-NULL.
vec_remove(m, h, idx, removed, ok) ==
    LET vec_status == vec_validate_ptr(m, h) IN
    IF vec_status # VEC_ERR_OK THEN Ret(m, vec_status)
    ELSE IF idx >= Deref(m, h).len THEN Ret(m, VEC_ERR_IOOB)
    ELSE LET o     == Deref(m, h)
             moved == IF idx # o.len - 1
                      THEN MemMove(o.elems, idx, idx + 1, o.len - idx - 1)
                      ELSE o.elems
             o1    == Trim([o EXCEPT !.elems = moved, !.len = o.len - 1])
             s     == vec_check_shrink(o1, ok)
         IN  [WithObj(m, h, s.st, s.o, s.re)
                EXCEPT !.out = IF removed THEN OutElem(vec_write_var(o, idx))
                                          ELSE NoOut]

\* vec_push that inserts at the front.
vec_push_front(m, h, src, ok) ==
    IF h = NULL THEN Segv(m)
    ELSE vec_insert(m, h, 0, src, ok)

\* vec->len is read before anything is checked.
vec_push(m, h, src, ok) ==
    IF h = NULL THEN Segv(m)
    ELSE vec_insert(m, h, Deref(m, h).len, src, ok)

\* vec_pop without the check for an empty vector.
vec_pop_unchecked(m, h, popped, ok) ==
    IF h = NULL THEN Ret(m, VEC_ERR_NULLPTR)
    ELSE vec_remove(m, h, SizeSub(Deref(m, h).len, 1), popped, ok)

vec_pop(m, h, popped, ok) ==
    IF h = NULL THEN Ret(m, VEC_ERR_NULLPTR)
    ELSE IF Deref(m, h).len = 0 THEN Ret(m, VEC_ERR_INVOP)
    ELSE vec_remove(m, h, Deref(m, h).len - 1, popped, ok)

\* The doubling copy without the copy that follows the loop.
RECURSIVE FillCopy_no_tail(_, _, _)
FillCopy_no_tail(e, offset, len) ==
    IF offset * 2 < len
    THEN FillCopy_no_tail(MemMove(e, offset, 0, offset), offset * 2, len)
    ELSE e

\* The doubling copy of vec_fill from the run [0, offset) on.
RECURSIVE FillCopy(_, _, _)
FillCopy(e, offset, len) ==
    IF offset * 2 < len
    THEN FillCopy(MemMove(e, offset, 0, offset), offset * 2, len)
    ELSE MemMove(e, offset, 0, len - offset)

\* vec_fill that resizes to len also when the capacity is len already.
vec_fill_resize_at_capacity(m, h, src, len, ok) ==
    LET vec_status == vec_validate_ptr(m, h) IN
    IF vec_status # VEC_ERR_OK THEN Ret(m, vec_status)
    ELSE IF src = NULL THEN Ret(m, VEC_ERR_NULLPTR)
    ELSE IF len = 0 THEN Ret(m, VEC_ERR_OK)
    ELSE LET r == IF Deref(m, h).capacity <= len
                  THEN vec_resize(m, h, len, ok)
                  ELSE Ret(m, VEC_ERR_OK)
         IN  IF r.st # VEC_ERR_OK THEN r
             ELSE LET o  == r.heap[h]
                      o1 == [o EXCEPT !.len = IF o.len < len THEN len ELSE o.len]
                      o2 == vec_write_idx(o1, 0, src)
                  IN  Checked(m, h, VEC_ERR_OK,
                              [o2 EXCEPT !.elems = FillCopy(o2.elems, 1, len)], r.re)

vec_fill(m, h, src, len, ok) ==
    LET vec_status == vec_validate_ptr(m, h) IN
    IF vec_status # VEC_ERR_OK THEN Ret(m, vec_status)
    ELSE IF src = NULL THEN Ret(m, VEC_ERR_NULLPTR)
    ELSE IF len = 0 THEN Ret(m, VEC_ERR_OK)
    ELSE LET r == IF Deref(m, h).capacity < len
                  THEN vec_resize(m, h, len, ok)
                  ELSE Ret(m, VEC_ERR_OK)
         IN  IF r.st # VEC_ERR_OK THEN r
             ELSE LET o  == r.heap[h]
                      o1 == [o EXCEPT !.len = IF o.len < len THEN len ELSE o.len]
                      o2 == vec_write_idx(o1, 0, src)
                  IN  Checked(m, h, VEC_ERR_OK,
                              [o2 EXCEPT !.elems = FillCopy(o2.elems, 1, len)], r.re)

\* vec_truncate without the shrink check.
vec_truncate_no_shrink(m, h, len, ok) ==
    LET vec_status == vec_validate_ptr(m, h) IN
    IF vec_status # VEC_ERR_OK THEN Ret(m, vec_status)
    ELSE IF len >= Deref(m, h).len THEN Ret(m, VEC_ERR_OK)
    ELSE WithObj(m, h, VEC_ERR_OK, Trim([Deref(m, h) EXCEPT !.len = len]), FALSE)

vec_truncate(m, h, len, ok) ==
    LET vec_status == vec_validate_ptr(m, h) IN
    IF vec_status # VEC_ERR_OK THEN Ret(m, vec_status)
    ELSE IF len >= Deref(m, h).len THEN Ret(m, VEC_ERR_OK)
    ELSE LET s == vec_check_shrink(Trim([Deref(m, h) EXCEPT !.len = len]), ok)
         IN  WithObj(m, h, s.st, s.o, s.re)

vec_extend(m, dst, src, ok) ==
    IF dst = src THEN Ret(m, VEC_ERR_INVOP)
    ELSE
    LET dst_status == vec_validate_ptr(m, dst) IN
    IF dst_status # VEC_ERR_OK THEN Ret(m, dst_status)
    ELSE
    LET src_status == vec_validate_ptr(m, src) IN
    IF src_status # VEC_ERR_OK THEN Ret(m, src_status)
    ELSE IF Deref(m, dst).elem_size # Deref(m, src).elem_size
    THEN Ret(m, VEC_ERR_INVOP)
    ELSE LET s == Deref(m, src)
             r == IF SizeSub(Deref(m, dst).capacity, s.len) < Deref(m, dst).len
                  THEN vec_resize(m, dst, Deref(m, dst).len + s.len, ok)
                  ELSE Ret(m, VEC_ERR_OK)
         IN  IF r.st # VEC_ERR_OK THEN r
             ELSE LET d == r.heap[dst]
                  IN  Checked(m, dst, VEC_ERR_OK,
                              [d EXCEPT !.elems = Take(d.elems, d.len) \o Take(s.elems, s.len),
                                        !.len = d.len + s.len], r.re)

(* --------------------------- read operations -------------------------- *)

\* dst: whether dst is non-NULL.
vec_get(m, h, idx, dst) ==
    LET vec_status == vec_validate_ptr(m, h) IN
    IF vec_status # VEC_ERR_OK THEN Ret(m, vec_status)
    ELSE IF ~dst THEN Ret(m, VEC_ERR_NULLPTR)
    ELSE IF idx >= Deref(m, h).len THEN Ret(m, VEC_ERR_IOOB)
    ELSE [Ret(m, VEC_ERR_OK) EXCEPT !.out = OutElem(vec_write_var(Deref(m, h), idx))]

vec_first(m, h, first) == vec_get(m, h, 0, first)

\* vec->len is read before anything is checked; len - 1 wraps on an empty vector.
vec_last(m, h, last) ==
    IF h = NULL THEN Segv(m)
    ELSE vec_get(m, h, SizeSub(Deref(m, h).len, 1), last)

vec_len(m, h, len) ==
    LET vec_status == vec_validate_ptr(m, h) IN
    IF vec_status # VEC_ERR_OK THEN Ret(m, vec_status)
    ELSE IF ~len THEN Ret(m, VEC_ERR_NULLPTR)
    ELSE [Ret(m, VEC_ERR_OK) EXCEPT !.out = OutSize(Deref(m, h).len)]

vec_capacity(m, h, cap) ==
    LET vec_status == vec_validate_ptr(m, h) IN
    IF vec_status # VEC_ERR_OK THEN Ret(m, vec_status)
    ELSE IF ~cap THEN Ret(m, VEC_ERR_NULLPTR)
    ELSE [Ret(m, VEC_ERR_OK) EXCEPT !.out = OutSize(Deref(m, h).capacity)]

vec_space(m, h, space) ==
    LET vec_status == vec_validate_ptr(m, h) IN
    IF vec_status # VEC_ERR_OK THEN Ret(m, vec_status)
    ELSE IF ~space THEN Ret(m, VEC_ERR_NULLPTR)
    ELSE [Ret(m, VEC_ERR_OK) EXCEPT
            !.out = OutSize(SizeSub(Deref(m, h).capacity, Deref(m, h).len))]

vec_is_empty(m, h, is_empty) ==
    LET vec_status == vec_validate_ptr(m, h) IN
    IF vec_status # VEC_ERR_OK THEN Ret(m, vec_status)
    ELSE IF ~is_empty THEN Ret(m, VEC_ERR_NULLPTR)
    ELSE [Ret(m, VEC_ERR_OK) EXCEPT !.out = OutFlag(Deref(m, h).len = 0)]

(* --------------------------- error handling --------------------------- *)

\* err: an int; the array is indexed from 0.
vec_get_err_msg(err) ==
    IF err >= VEC_ERR_COUNT \/ err < 0 THEN NULL
    ELSE VEC_ERR_MSG[err + 1]

(* ------------------------------- state -------------------------------- *)

VARIABLES
    heap,       \* address -> struct vec, for the structs allocated
    ptr,        \* the caller's pointer variables
    status,     \* the status the last call returned
    out,        \* what the last call wrote to its output argument
    realloc,    \* whether the last call replaced the storage
    fault,      \* "none", or how the last call left defined behaviour
    op,         \* the last call: its name and arguments
    pre,        \* heap and ptr before the last call
    npush,      \* successful calls counted by the push-only specification
    nrealloc,   \* reallocations counted by the push-only specification
    base,       \* the vector as it was before the first call of a recorded run
    trace,      \* the calls of a recorded run, each with what it returned
    freed       \* address -> struct vec as it was released, until malloc reuses it

vars ==
    <<heap, ptr, status, out, realloc, fault, op, pre, npush, nrealloc, base, trace,
      freed>>

M == [heap |-> heap, ptr |-> ptr]

EmptyHeap == [a \in {} |-> NULL]

Init ==
    /\ heap = EmptyHeap
    /\ ptr = [s \in Slots |-> NULL]
    /\ status = VEC_ERR_OK
    /\ out = NoOut
    /\ realloc = FALSE
    /\ fault = "none"
    /\ op = [name |-> "init"]
    /\ pre = [heap |-> EmptyHeap, ptr |-> [s \in Slots |-> NULL]]
    /\ npush = 0
    /\ nrealloc = 0
    /\ base = NULL
    /\ trace = <<>>
    /\ freed = EmptyHeap

\* What the build can do with a call that leaves defined behaviour: a null
\* dereference kills the process; after a write outside the allocation the call
\* may return or the process may be killed.
Killed(r) ==
    IF r.fault = "none" THEN {FALSE}
    ELSE IF r.fault = "segv" THEN {TRUE}
    ELSE {TRUE, FALSE}

\* One call: label names it, r is its result.  A process that left defined
\* behaviour makes no further call.
Call(label, r) ==
    /\ fault = "none"
    /\ op' = label
    /\ pre' = M
    /\ \E killed \in Killed(r) :
        /\ heap' = IF killed THEN heap ELSE r.heap
        /\ ptr' = IF killed THEN ptr ELSE r.ptr
        /\ status' = IF killed THEN status ELSE r.st
        /\ out' = IF killed THEN NoOut ELSE r.out
        /\ realloc' = IF killed THEN FALSE ELSE r.re
        /\ fault' = IF killed THEN "segv" ELSE r.fault

\* A call of a caller that keeps no copy of a handle: what a released struct
\* holds is nothing it can read.
Apply(label, r) ==
    Call(label, r) /\ UNCHANGED <<npush, nrealloc, base, trace, freed>>

\* The allocator's answers to the (at most two) allocations of a call.
Allocs == {<<TRUE, TRUE>>, <<FALSE, TRUE>>, <<TRUE, FALSE>>}

\* The length of the vector at h, 0 when h is no vector.
LenOf(h) == IF h \in DOMAIN heap THEN heap[h].len ELSE 0

(* ------------------------------ actions -------------------------------- *)
(* Each action draws the arguments of one call from the sets it is given:  *)
(* H handles, PP addresses of pointer variables, IS indices, VS values (or *)
(* NULL), NS and CS lengths and capacities.  ok, al: the allocator's       *)
(* answers.                                                                *)

Make(PP, ES, CS) ==
    \E pp \in PP, es \in ES, c \in CS, al \in Allocs :
        Apply([name |-> "make", pp |-> pp, elem_size |-> es, capacity |-> c],
              vec_make(M, pp, es, c, al))

Resize(H, CS) ==
    \E h \in H, c \in CS, ok \in BOOLEAN :
        Apply([name |-> "resize", h |-> h, capacity |-> c], vec_resize(M, h, c, ok))

ShrinkToFit(H) ==
    \E h \in H, ok \in BOOLEAN :
        Apply([name |-> "shrink_to_fit", h |-> h], vec_shrink_to_fit(M, h, ok))

Clear(H) ==
    \E h \in H, ok \in BOOLEAN :
        Apply([name |-> "clear", h |-> h], vec_clear(M, h, ok))

Clone(H, PP) ==
    \E src \in H, pp \in PP, al \in Allocs :
        Apply([name |-> "clone", h |-> src, pp |-> pp], vec_clone(M, src, pp, al))

Destroy(PP) ==
    \E pp \in PP :
        Apply([name |-> "destroy", pp |-> pp], vec_destroy(M, pp))

Set(H, IS, VS) ==
    \E h \in H, idx \in IS, src \in VS, old \in BOOLEAN :
        Apply([name |-> "set", h |-> h, idx |-> idx, src |-> src, old |-> old],
              vec_set(M, h, idx, src, old))

Swap(H, IS) ==
    \E h \in H, idx1 \in IS, idx2 \in IS, ok \in BOOLEAN :
        Apply([name |-> "swap", h |-> h, idx |-> idx1, idx2 |-> idx2],
              vec_swap(M, h, idx1, idx2, ok))

\* max: the specification makes no insertion into a vector of max elements.
Insert(H, IS, VS, max) ==
    \E h \in H, idx \in IS, src \in VS, ok \in BOOLEAN :
        /\ LenOf(h) < max
        /\ Apply([name |-> "insert", h |-> h, idx |-> idx, src |-> src],
                 vec_insert(M, h, idx, src, ok))

Remove(H, IS) ==
    \E h \in H, idx \in IS, removed \in BOOLEAN, ok \in BOOLEAN :
        Apply([name |-> "remove", h |-> h, idx |-> idx, removed |-> removed],
              vec_remove(M, h, idx, removed, ok))

Push(H, VS, max) ==
    \E h \in H, src \in VS, ok \in BOOLEAN :
        /\ LenOf(h) < max
        /\ Apply([name |-> "push", h |-> h, src |-> src], vec_push(M, h, src, ok))

Pop(H) ==
    \E h \in H, popped \in BOOLEAN, ok \in BOOLEAN :
        Apply([name |-> "pop", h |-> h, removed |-> popped],
              vec_pop(M, h, popped, ok))

Fill(H, VS, NS) ==
    \E h \in H, src \in VS, len \in NS, ok \in BOOLEAN :
        Apply([name |-> "fill", h |-> h, src |-> src, len |-> len],
              vec_fill(M, h, src, len, ok))

Truncate(H, NS) ==
    \E h \in H, len \in NS, ok \in BOOLEAN :
        Apply([name |-> "truncate", h |-> h, len |-> len],
              vec_truncate(M, h, len, ok))

\* max: the specification builds no vector longer than max by extension.
Extend(HD, HS, max) ==
    \E dst \in HD, src \in HS, ok \in BOOLEAN :
        /\ LenOf(dst) + LenOf(src) <= max
        /\ Apply([name |-> "extend", h |-> dst, src |-> src],
                 vec_extend(M, dst, src, ok))

Get(H, IS) ==
    \E h \in H, idx \in IS, dst \in BOOLEAN :
        Apply([name |-> "get", h |-> h, idx |-> idx, dst |-> dst],
              vec_get(M, h, idx, dst))

First(H) ==
    \E h \in H, dst \in BOOLEAN :
        Apply([name |-> "first", h |-> h, dst |-> dst], vec_first(M, h, dst))

Last(H) ==
    \E h \in H, dst \in BOOLEAN :
        Apply([name |-> "last", h |-> h, dst |-> dst], vec_last(M, h, dst))

Length(H) ==
    \E h \in H, dst \in BOOLEAN :
        Apply([name |-> "len", h |-> h, dst |-> dst], vec_len(M, h, dst))

Capacity(H) ==
    \E h \in H, dst \in BOOLEAN :
        Apply([name |-> "capacity", h |-> h, dst |-> dst], vec_capacity(M, h, dst))

Space(H) ==
    \E h \in H, dst \in BOOLEAN :
        Apply([name |-> "space", h |-> h, dst |-> dst], vec_space(M, h, dst))

IsEmpty(H) ==
    \E h \in H, dst \in BOOLEAN :
        Apply([name |-> "is_empty", h |-> h, dst |-> dst], vec_is_empty(M, h, dst))

\* What vec_get_err_msg returned.
OutMsg(text) ==
    [elem |-> JUNK, size |-> 0, flag |-> FALSE, written |-> FALSE, msg |-> text]

\* The caller asks for the printable value of err.
GetErrMsg(ES) ==
    \E err \in ES :
        /\ fault = "none"
        /\ op' = [name |-> "get_err_msg", err |-> err]
        /\ pre' = M
        /\ out' = OutMsg(vec_get_err_msg(err))
        /\ UNCHANGED <<heap, ptr, status, realloc, fault, npush, nrealloc, base,
                       trace, freed>>

(* --------------------------- specifications ---------------------------- *)

\* The handles the caller holds in a and in b.
HeldA == {ptr["a"]}

HeldB == {ptr["b"]}

\* Spec: one short vector of one-byte elements under every operation on one
\* vector; the handle is null until the vector is made and after it is destroyed.
Next ==
    \/ Make({"a"}, {0, 1}, {0, MAX_CAPACITY + 1})
    \/ Resize(HeldA, {MIN_CAPACITY, MIN_CAPACITY + 1, MAX_CAPACITY + 1})
    \/ ShrinkToFit(HeldA)
    \/ Clear(HeldA)
    \/ Destroy({"a"})
    \/ Set(HeldA, 0..MaxLen, Values \cup {NULL})
    \/ Swap(HeldA, 0..MaxLen)
    \/ Insert(HeldA, 0..MaxLen, Values \cup {NULL}, MaxLen)
    \/ Remove(HeldA, 0..MaxLen)
    \/ Push(HeldA, Values, MaxLen)
    \/ Pop(HeldA)
    \/ Fill(HeldA, Values, 0..MaxLen)
    \/ Truncate(HeldA, 0..MaxLen)
    \/ Get(HeldA, 0..MaxLen)
    \/ First(HeldA)
    \/ Last(HeldA)
    \/ Length(HeldA)
    \/ Capacity(HeldA)
    \/ Space(HeldA)
    \/ IsEmpty(HeldA)

Spec == Init /\ [][Next]_vars

\* SpecPolicy: one vector of equal elements, as long as the growth policy lets
\* it become, under the operations that change its length or its capacity.
NextPolicy ==
    \/ Make({"a"}, {1}, {0})
    \/ Resize(HeldA, {2 * MIN_CAPACITY + 3, MAX_CAPACITY})
    \/ ShrinkToFit({h \in HeldA : LenOf(h) <= MaxLen})
    \/ Insert(HeldA, {0, 1, MAX_CAPACITY}, {"x"}, SIZE_MOD)
    \/ Push(HeldA, {"x"}, SIZE_MOD)
    \/ Remove(HeldA, {0, 1, MAX_CAPACITY})
    \/ Pop(HeldA)
    \/ Truncate(HeldA, {0, MIN_CAPACITY - 1, MIN_CAPACITY})

SpecPolicy == Init /\ [][NextPolicy]_vars

\* SpecPush: a vector made with the default capacity and then only pushed to;
\* npush counts the pushes that returned OK, nrealloc those that reallocated.
CountedPush ==
    \E src \in {"x"}, ok \in BOOLEAN :
        /\ Call([name |-> "push", h |-> ptr["a"], src |-> src],
                vec_push(M, ptr["a"], src, ok))
        /\ npush' = IF fault' = "none" /\ status' = VEC_ERR_OK THEN npush + 1
                                                               ELSE npush
        /\ nrealloc' = IF realloc' THEN nrealloc + 1 ELSE nrealloc
        /\ UNCHANGED <<base, trace, freed>>

NextPush ==
    \/ /\ ptr["a"] = NULL
       /\ Make({"a"}, {1, 2}, {0, MIN_CAPACITY})
    \/ /\ ptr["a"] # NULL
       /\ CountedPush

SpecPush == Init /\ [][NextPush]_vars

\* A recorded call: name and pushed value v (NULL for a pop), status, whether
\* it reallocated, what it wrote to its output, and the vector after it.
Recorded(name, v, h) ==
    /\ base' = IF trace = <<>> THEN heap[h] ELSE base
    /\ trace' = Append(trace, [name |-> name, v |-> v, st |-> status',
                               re |-> realloc', out |-> out', o |-> heap'[h]])
    /\ UNCHANGED <<npush, nrealloc, freed>>

\* A run goes on while its calls return OK and it has room for another call.
RunOpen ==
    /\ ptr["a"] # NULL
    /\ Len(trace) < 2 * MaxRun
    /\ (trace # <<>> => trace[Len(trace)].st = VEC_ERR_OK)

RunPush(VS) ==
    \E src \in VS, ok \in BOOLEAN :
        /\ RunOpen
        /\ Call([name |-> "push", h |-> ptr["a"], src |-> src],
                vec_push(M, ptr["a"], src, ok))
        /\ Recorded("push", src, ptr["a"])

RunPop ==
    \E ok \in BOOLEAN :
        /\ RunOpen
        /\ Call([name |-> "pop", h |-> ptr["a"], removed |-> TRUE],
                vec_pop(M, ptr["a"], TRUE, ok))
        /\ Recorded("pop", NULL, ptr["a"])

\* SpecRun: a vector of equal elements is made, resized, filled and shrunk to
\* fit; then a run of pushes and pops on it is recorded.
NextRun ==
    \/ trace = <<>> /\ Make({"a"}, {1}, {0, 4 * MIN_CAPACITY})
    \/ trace = <<>> /\ Resize(HeldA, {2 * MIN_CAPACITY})
    \/ trace = <<>> /\ Fill(HeldA, {"x"}, {1, MIN_CAPACITY \div 2 - 1, MIN_CAPACITY \div 2,
                                          MIN_CAPACITY - 1, MIN_CAPACITY})
    \/ trace = <<>> /\ ShrinkToFit({h \in HeldA : LenOf(h) <= MaxLen})
    \/ RunPush(Values)
    \/ RunPop

SpecRun == Init /\ [][NextRun]_vars

\* SpecPair: a source vector b, made and filled, and a vector a that is cloned
\* into and extended from it, under the operations that allocate.
NextPair ==
    \/ Make({"a"}, {1}, {0})
    \/ Make({"b"}, {1}, {0})
    \/ Fill(HeldB, {"x"}, {MIN_CAPACITY \div 2 + 1})
    \/ Fill(HeldA, {"x"}, {MIN_CAPACITY \div 2 + 1, MIN_CAPACITY + 1})
    \/ Resize(HeldA, {MIN_CAPACITY + 1})
    \/ ShrinkToFit(HeldA)
    \/ Clear(HeldA)
    \/ Insert(HeldA, {0}, {"x"}, MaxLen)
    \/ Push(HeldA, {"x"}, MaxLen)
    \/ Clone(HeldA \cup HeldB, {"a"})
    \/ Extend(HeldA, HeldA \cup HeldB, MIN_CAPACITY + 2)
    \/ Destroy({"a"})

SpecPair == Init /\ [][NextPair]_vars

\* The handles of the vectors of at most MaxPair elements.
Short == {h \in HeldA \cup HeldB : LenOf(h) <= MaxPair}

\* SpecClone: a vector b of elements "x" and "y", made first, and a vector a of
\* elements "x", of capacity MIN_CAPACITY or shrunk to fit; b is cloned into a,
\* or a is extended from b, and then a is changed or either is destroyed.
NextClone ==
    \/ ptr["a"] = NULL /\ Make({"b"}, {1}, {0})
    \/ ptr["b"] # NULL /\ Make({"a"}, {1}, {0})
    \/ Push(HeldB, Values, MaxPair)
    \/ Push(HeldA, {"x"}, MaxPair)
    \/ Fill(HeldB, {"y"}, {MIN_CAPACITY + 1})
    \/ ShrinkToFit(HeldA \cap Short)
    \/ Clone(HeldB, {"a"})
    \/ Extend(HeldA, HeldB, MaxPair)
    \/ Set(HeldA \cup HeldB, {0}, {"y"})
    \/ Insert(HeldA, {0}, {"y"}, MaxPair)
    \/ Remove(HeldA \cap Short, {0})
    \/ Fill(HeldA, {"x"}, {1})
    \/ Clear(HeldA)
    \/ Resize(HeldA, {MIN_CAPACITY + 1})
    \/ Destroy({"a", "b"})

SpecClone == Init /\ [][NextClone]_vars

\* SpecFill: a vector of up to MaxLen pushed elements, of capacity MIN_CAPACITY
\* or shrunk to fit, is filled, over and over, to lengths below, at and above
\* its length and its capacity.
NextFill ==
    \/ Make({"a"}, {1}, {0})
    \/ Push(HeldA, Values, MaxLen)
    \/ ShrinkToFit({h \in HeldA : LenOf(h) <= MaxLen})
    \/ Fill(HeldA, Values \cup {NULL},
            (0..MaxLen) \cup {5, MIN_CAPACITY, MIN_CAPACITY + 1, 2 * MIN_CAPACITY + 1})

SpecFill == Init /\ [][NextFill]_vars

\* SpecHandles: every operation called with a null pointer, with a pointer to
\* memory that is no vector, and with the handle of a vector of at most one
\* element.
Handles == HeldA \cup {NULL} \cup ForeignPtrs

NextHandles ==
    \/ Make({"a", NULL}, {1}, {0})
    \/ Resize(Handles, {MIN_CAPACITY + 1})
    \/ ShrinkToFit(Handles)
    \/ Clear(Handles)
    \/ Clone(Handles, {"a", NULL})
    \/ Destroy({"a", NULL})
    \/ Set(Handles, {0}, {"x", NULL})
    \/ Swap(Handles, {0, 1})
    \/ Insert(Handles, {0}, {"x", NULL}, 1)
    \/ Remove(Handles, {0})
    \/ Push(Handles, {"x", NULL}, 1)
    \/ Pop(Handles)
    \/ Fill(Handles, {"x", NULL}, {0, 1})
    \/ Truncate(Handles, {0})
    \/ Extend(Handles, Handles, 1)
    \/ Get(Handles, {0})
    \/ First(Handles)
    \/ Last(Handles)
    \/ Length(Handles)
    \/ Capacity(Handles)
    \/ Space(Handles)
    \/ IsEmpty(Handles)

SpecHandles == Init /\ [][NextHandles]_vars

\* free leaves the bytes of a struct where they are until malloc hands its
\* address out again: the released structs after a call.
Released ==
    [a \in (DOMAIN freed \cup DOMAIN heap) \ DOMAIN heap' |->
        IF a \in DOMAIN heap THEN heap[a] ELSE freed[a]]

\* A call of a caller that keeps copies of its handles.
Tracked(label, r) ==
    /\ Call(label, r)
    /\ freed' = Released
    /\ UNCHANGED <<npush, nrealloc, base, trace>>

\* The caller copies the handle in a to b (vec_t* b = a).
Copy ==
    /\ fault = "none"
    /\ ptr["a"] # NULL
    /\ ptr["b"] = NULL
    /\ ptr' = [ptr EXCEPT !["b"] = ptr["a"]]
    /\ op' = [name |-> "copy"]
    /\ pre' = M
    /\ UNCHANGED <<heap, status, out, realloc, fault, npush, nrealloc, base, trace,
                   freed>>

\* The memory as a call reads it through a pointer to a released struct whose
\* bytes are still there.
Mem == [heap |-> freed @@ heap, ptr |-> ptr]

\* A call through a pointer to a released struct; r is its result when the
\* bytes of the struct are still there.  The build can run it on the released
\* memory ("intact"), can read another tag where the allocator wrote into the
\* block ("clobbered"), or the process is killed.
AfterFree(label, r) ==
    /\ fault = "none"
    /\ op' = label
    /\ pre' = M
    /\ \E outcome \in {"intact", "clobbered", "killed"} :
        /\ heap' = IF outcome = "intact"
                   THEN [a \in DOMAIN heap \cap DOMAIN r.heap |-> r.heap[a]]
                   ELSE heap
        /\ freed' = IF outcome = "intact"
                    THEN [a \in DOMAIN freed \cap DOMAIN r.heap |-> r.heap[a]]
                    ELSE freed
        /\ ptr' = IF outcome = "intact" THEN r.ptr ELSE ptr
        /\ status' = IF outcome = "intact" THEN r.st
                     ELSE IF outcome = "clobbered" THEN VEC_ERR_INVPTR
                     ELSE status
        /\ out' = IF outcome = "intact" THEN r.out ELSE NoOut
        /\ realloc' = IF outcome = "intact" THEN r.re ELSE FALSE
        /\ fault' = IF outcome = "killed" THEN "segv" ELSE "freed"
    /\ UNCHANGED <<npush, nrealloc, base, trace>>

TrackedMake ==
    \E al \in Allocs :
        /\ ptr["a"] = NULL
        /\ Tracked([name |-> "make", pp |-> "a", elem_size |-> 1, capacity |-> 0],
                   vec_make(M, "a", 1, 0, al))

TrackedPush ==
    \E h \in (HeldA \cup HeldB) \cap DOMAIN heap, src \in Values, ok \in BOOLEAN :
        /\ LenOf(h) < MaxLen
        /\ Tracked([name |-> "push", h |-> h, src |-> src], vec_push(M, h, src, ok))

TrackedDestroy ==
    \E pp \in Slots :
        /\ ptr[pp] \notin DOMAIN freed
        /\ Tracked([name |-> "destroy", pp |-> pp], vec_destroy(M, pp))

\* A read through the copy of a handle whose vector was destroyed.
StaleRead ==
    /\ ptr["b"] \in DOMAIN freed
    /\ \/ AfterFree([name |-> "get", h |-> ptr["b"], idx |-> 0, dst |-> TRUE],
                    vec_get(Mem, ptr["b"], 0, TRUE))
       \/ AfterFree([name |-> "len", h |-> ptr["b"], dst |-> TRUE],
                    vec_len(Mem, ptr["b"], TRUE))

\* A write through the copy of a handle whose vector was destroyed.
StaleWrite ==
    /\ ptr["b"] \in DOMAIN freed
    /\ \/ \E src \in Values :
            AfterFree([name |-> "push", h |-> ptr["b"], src |-> src],
                      vec_push(Mem, ptr["b"], src, TRUE))
       \/ AfterFree([name |-> "pop", h |-> ptr["b"], removed |-> TRUE],
                    vec_pop(Mem, ptr["b"], TRUE, TRUE))

\* A second destroy, of the copy of the handle.
StaleDestroy ==
    /\ ptr["b"] \in DOMAIN freed
    /\ AfterFree([name |-> "destroy", pp |-> "b"], vec_destroy(Mem, "b"))

\* SpecStale: a vector is made and pushed to, its handle is copied, and the
\* vector is destroyed through the one pointer and then used through the other.
NextStale ==
    \/ TrackedMake
    \/ TrackedPush
    \/ Copy
    \/ TrackedDestroy
    \/ StaleRead
    \/ StaleWrite
    \/ StaleDestroy

SpecStale == Init /\ [][NextStale]_vars

\* The values a vec_err_t variable can hold: every int.
Ints == (0 - INT_MAX - 1)..INT_MAX

\* SpecMsg: calls that return each of the statuses, and the caller asking for
\* the printable value of the status it got or of any other int.
NextMsg ==
    \/ Make({"a"}, {0, 1}, {0})
    \/ Push(HeldA, Values \cup {NULL}, 1)
    \/ Get(HeldA \cup {"f0"}, {0, 1})
    \/ GetErrMsg({status})
    \/ GetErrMsg(Ints)

SpecMsg == Init /\ [][NextMsg]_vars

\* SpecMake: two pointer variables and makes with element sizes and capacities
\* below, at and above their limits, into variables that hold NULL or a vector.
NextMake ==
    \/ Make(Slots, {0, MIN_DATA_SIZE, 2, MAX_DATA_SIZE, MAX_DATA_SIZE + 1},
            {0, MIN_CAPACITY - 1, MIN_CAPACITY, MIN_CAPACITY + 1, MAX_CAPACITY + 1})
    \/ Push(HeldA, Values, 1)
    \/ Destroy(Slots)

SpecMake == Init /\ [][NextMake]_vars

\* SpecResize: a vector of up to MaxLen pushed elements, or filled to
\* 2 * MIN_CAPACITY elements "x" with "y" set into some of them, is resized to
\* capacities below, at and above the limits and its length.
NextResize ==
    \/ Make({"a"}, {1}, {0})
    \/ Push(HeldA, Values, MaxLen)
    \/ Fill(HeldA, {"x"}, {2 * MIN_CAPACITY})
    \/ Set(HeldA, {0, MIN_CAPACITY, MIN_CAPACITY + 1}, {"y"})
    \/ Resize(HeldA, {0, MIN_CAPACITY, MIN_CAPACITY + 1, 2 * MIN_CAPACITY + 1,
                      MAX_CAPACITY, MAX_CAPACITY + 1})

SpecResize == Init /\ [][NextResize]_vars

\* SpecTruncate: a vector of up to MaxLen pushed elements, or filled to
\* MIN_CAPACITY elements "x" with "y" set into some of them, in MIN_CAPACITY,
\* 2 * MIN_CAPACITY or 4 * MIN_CAPACITY slots, is truncated to lengths around
\* its length and around a quarter of its capacity.
NextTruncate ==
    \/ Make({"a"}, {1}, {0})
    \/ Push(HeldA, Values, MaxLen)
    \/ Fill(HeldA, {"x"}, {MIN_CAPACITY})
    \/ Set(HeldA, {0, MIN_CAPACITY \div 2}, {"y"})
    \/ Resize(HeldA, {2 * MIN_CAPACITY, 4 * MIN_CAPACITY})
    \/ Truncate(HeldA, {0, 1, MIN_CAPACITY \div 2 - 1, MIN_CAPACITY \div 2,
                        MIN_CAPACITY \div 2 + 1, MIN_CAPACITY - 1, MIN_CAPACITY,
                        MIN_CAPACITY + 1})

SpecTruncate == Init /\ [][NextTruncate]_vars

(* ------------------------------- claims -------------------------------- *)

\* The structs the last call was made on, before and after it.
PreObj == pre.heap[op.h]

NowObj == heap[op.h]

\* The last call was name, it returned st, and its handle was a vector.
Returned(names, st) ==
    /\ op.name \in names
    /\ fault = "none"
    /\ status = st
    /\ op.h \in DOMAIN pre.heap
    /\ op.h \in DOMAIN heap

\* C1: after any sequence of operations every live vector has len <= capacity.
\* vec_extend on a destination whose capacity is below the source's length
\* computes capacity - len(src) in size_t, skips the reallocation and adds the
\* source's length to len.
C1_LenWithinCapacity ==
    \A a \in DOMAIN heap : heap[a].len <= heap[a].capacity

\* C2: after any sequence of operations every live vector has
\* capacity >= MIN_CAPACITY.  vec_shrink_to_fit reallocates to len.
C2_CapacityAtLeastMin ==
    \A a \in DOMAIN heap : heap[a].capacity >= MIN_CAPACITY

\* C3: after any sequence of operations every live vector has
\* capacity <= MAX_CAPACITY.  vec_make takes any capacity above MIN_CAPACITY.
C3_CapacityAtMostMax ==
    \A a \in DOMAIN heap : heap[a].capacity <= MAX_CAPACITY

\* C4: every operation but make, called with a null handle, returns NULLPTR, and
\* called with a handle whose tag does not match, returns INVPTR, before it reads
\* a field or checks anything else.  vec_push and vec_last read len first,
\* vec_pop checks len before the tag, vec_extend compares its handles first.
C4_ValidatorFirst ==
    (op.name \notin {"init", "make", "destroy"}) =>
        /\ op.h = NULL => (fault = "none" /\ status = VEC_ERR_NULLPTR)
        /\ op.h \in {"f0", "f1"} => (fault = "none" /\ status = VEC_ERR_INVPTR)

\* C5: a remove, pop or truncate that returns another status than OK leaves the
\* vector as it was.  vec_remove and vec_truncate take the element out before
\* the shrink reallocation that can fail.
C5_FailedRemovalChangesNothing ==
    (/\ op.name \in {"remove", "pop", "truncate"}
     /\ fault = "none"
     /\ status # VEC_ERR_OK) => heap = pre.heap

\* rf is what a call makes of the present memory when its allocation fails, rt
\* what it makes of it when the allocation succeeds: either the call allocates
\* nothing, or the failure returns NOMEM and leaves the memory as it is.
FailsClean(rf, rt) ==
    \/ rf = rt
    \/ /\ rf.fault = "none"
       /\ rf.st = VEC_ERR_NOMEM
       /\ rf.heap = heap
       /\ rf.ptr = ptr

\* C6: when an allocation fails inside resize, shrink_to_fit, clear, insert,
\* push, fill, extend or clone, the call returns NOMEM, and a call of these that
\* returns NOMEM leaves every vector, and every pointer to one, as it was.
C6_FailedAllocationChangesNothing ==
    /\ (/\ op.name \in {"resize", "shrink_to_fit", "clear", "insert", "push", "fill",
                        "extend", "clone"}
        /\ fault = "none"
        /\ status = VEC_ERR_NOMEM) => (heap = pre.heap /\ ptr = pre.ptr)
    /\ \A h \in HeldA \cup HeldB :
        /\ FailsClean(vec_resize(M, h, MIN_CAPACITY + 1, FALSE),
                      vec_resize(M, h, MIN_CAPACITY + 1, TRUE))
        /\ FailsClean(vec_shrink_to_fit(M, h, FALSE), vec_shrink_to_fit(M, h, TRUE))
        /\ FailsClean(vec_clear(M, h, FALSE), vec_clear(M, h, TRUE))
        /\ FailsClean(vec_insert(M, h, 0, "x", FALSE), vec_insert(M, h, 0, "x", TRUE))
        /\ FailsClean(vec_push(M, h, "x", FALSE), vec_push(M, h, "x", TRUE))
        /\ \A n \in {MIN_CAPACITY \div 2 + 1, MIN_CAPACITY + 1} :
              FailsClean(vec_fill(M, h, "x", n, FALSE), vec_fill(M, h, "x", n, TRUE))
        /\ \A src \in HeldA \cup HeldB :
              FailsClean(vec_extend(M, h, src, FALSE), vec_extend(M, h, src, TRUE))
        /\ \A pp \in Slots, al \in Allocs :
              FailsClean(vec_clone(M, h, pp, al), vec_clone(M, h, pp, <<TRUE, TRUE>>))

\* C6 witness: a clone into an existing, too small destination ran out of memory.
C6_Witness ==
    /\ op.name = "clone"
    /\ fault = "none"
    /\ status = VEC_ERR_NOMEM
    /\ pre.ptr[op.pp] # NULL
    /\ pre.heap[pre.ptr[op.pp]].capacity < pre.heap[op.h].len

\* C7: a successful insert or push leaves the capacity alone when len < capacity,
\* and reallocates to exactly max(2 * capacity, MIN_CAPACITY) when
\* len >= capacity and 2 * capacity <= MAX_CAPACITY; it adds one element.
C7_GrowCheck ==
    Returned({"insert", "push"}, VEC_ERR_OK) =>
        /\ PreObj.len < PreObj.capacity =>
              (NowObj.capacity = PreObj.capacity /\ ~realloc)
        /\ (PreObj.len >= PreObj.capacity /\ 2 * PreObj.capacity <= MAX_CAPACITY) =>
              (NowObj.capacity = Max(2 * PreObj.capacity, MIN_CAPACITY) /\ realloc)
        /\ NowObj.len = PreObj.len + 1

\* C7 witness: a push on a full vector of 2 * MIN_CAPACITY doubled it.
C7_Witness ==
    /\ Returned({"push"}, VEC_ERR_OK)
    /\ PreObj.len = 2 * MIN_CAPACITY
    /\ PreObj.capacity = 2 * MIN_CAPACITY
    /\ NowObj.capacity = 4 * MIN_CAPACITY
    /\ realloc

\* C8: an insert (at an index within len) or a push on a full vector whose
\* doubled capacity exceeds MAX_CAPACITY returns INVOP and changes nothing.
C8_CapacityExceeded ==
    (/\ op.name \in {"insert", "push"}
     /\ op.h \in DOMAIN pre.heap
     /\ PreObj.len >= PreObj.capacity
     /\ 2 * PreObj.capacity > MAX_CAPACITY
     /\ (op.name = "insert" => op.idx <= PreObj.len)
     /\ op.src # NULL)
    => (fault = "none" /\ status = VEC_ERR_INVOP /\ heap = pre.heap)

\* C8 witness: a push on a full vector of more than MAX_CAPACITY / 2 elements.
C8_Witness ==
    /\ op.name = "push"
    /\ op.h \in DOMAIN pre.heap
    /\ PreObj.len = PreObj.capacity
    /\ 2 * PreObj.capacity > MAX_CAPACITY
    /\ status = VEC_ERR_INVOP

\* What the shrink check makes of capacity cap at length len.
ShrunkCapacity(len, cap) ==
    IF len < cap \div 4 /\ cap > MIN_CAPACITY THEN Max(cap \div 2, MIN_CAPACITY)
                                              ELSE cap

\* C9 as claimed: after every successful remove, pop or truncate the capacity
\* is what the shrink check makes of the old capacity at the new length.
C9_ShrinkCheck_AsClaimed ==
    Returned({"remove", "pop", "truncate"}, VEC_ERR_OK) =>
        NowObj.capacity = ShrunkCapacity(NowObj.len, PreObj.capacity)

\* C9 as amended: the same after every successful remove or pop, and after every
\* successful truncate to less than the length: a truncate to the length or
\* more returns OK without a shrink check.
C9_ShrinkCheck ==
    (/\ Returned({"remove", "pop", "truncate"}, VEC_ERR_OK)
     /\ (op.name = "truncate" => op.len < PreObj.len))
    => /\ NowObj.capacity = ShrunkCapacity(NowObj.len, PreObj.capacity)
       /\ realloc = (NowObj.capacity # PreObj.capacity)
       /\ (PreObj.len = 16 /\ PreObj.capacity = 64 /\ op.name = "pop")
              => NowObj.capacity = 32
       /\ (PreObj.len = 17 /\ PreObj.capacity = 64 /\ op.name = "pop")
              => NowObj.capacity = 64

\* C9 witness: a pop from 16 elements in 64 slots shrank the storage to 32.
C9_Witness ==
    /\ Returned({"pop"}, VEC_ERR_OK)
    /\ PreObj.len = 16
    /\ PreObj.capacity = 64
    /\ NowObj.capacity = 32
    /\ realloc

\* The smallest capacity c, 2c, 4c, ... that holds n elements, and the number
\* of doublings that lead to it.
RECURSIVE SmallestCapacity(_, _)
SmallestCapacity(n, c) == IF c >= n THEN c ELSE SmallestCapacity(n, 2 * c)

RECURSIVE Doublings(_, _)
Doublings(n, c) == IF c >= n THEN 0 ELSE 1 + Doublings(n, 2 * c)

\* C10: a vector made with capacity MIN_CAPACITY (16) and then only pushed to
\* has, after n successful pushes, the smallest capacity 16 * 2^k >= n, after
\* exactly k reallocations; 17 pushes end at capacity 32 after one.
C10_PushGrowth ==
    ptr["a"] # NULL =>
        /\ heap[ptr["a"]].len = npush
        /\ heap[ptr["a"]].capacity = SmallestCapacity(npush, MIN_CAPACITY)
        /\ nrealloc = Doublings(npush, MIN_CAPACITY)
        /\ npush = 17 => (heap[ptr["a"]].capacity = 32 /\ nrealloc = 1)

\* C10 witness: the seventeenth push has reallocated, once, to 32.
C10_Witness ==
    /\ ptr["a"] # NULL
    /\ npush = 17
    /\ heap[ptr["a"]].capacity = 32
    /\ nrealloc = 1

\* The vector before call i of the recorded run.
ObjBefore(i) == IF i = 1 THEN base ELSE trace[i - 1].o

\* C11: a successful push(v) followed by a pop gives v in the pop's output and
\* leaves the vector with the length and the elements it had before the push.
C11_PushPopRoundTrip ==
    \A i \in 1..(Len(trace) - 1) :
        (/\ trace[i].name = "push"
         /\ trace[i].st = VEC_ERR_OK
         /\ trace[i + 1].name = "pop")
        => /\ trace[i + 1].out = OutElem(trace[i].v)
           /\ trace[i + 1].o.len = ObjBefore(i).len
           /\ trace[i + 1].o.elems = ObjBefore(i).elems

\* C11 witness: "y" was pushed to a full vector of MIN_CAPACITY elements "x"
\* and popped again.
C11_Witness ==
    /\ Len(trace) = 2
    /\ base.len = MIN_CAPACITY
    /\ base.capacity = MIN_CAPACITY
    /\ trace[1].name = "push" /\ trace[1].v = "y" /\ trace[1].st = VEC_ERR_OK
    /\ trace[2].name = "pop" /\ trace[2].st = VEC_ERR_OK
    /\ trace[2].out = OutElem("y")
    /\ trace[2].o.len = MIN_CAPACITY

\* The recorded run is n successful pushes followed by n successful pops.
RoundTrip(n) ==
    /\ Len(trace) = 2 * n
    /\ \A i \in 1..n : trace[i].name = "push" /\ trace[i].st = VEC_ERR_OK
    /\ \A i \in (n + 1)..(2 * n) : trace[i].name = "pop" /\ trace[i].st = VEC_ERR_OK

\* C12 as claimed: n successful pushes followed by n successful pops return
\* the vector to its length and to its capacity.
C12_RoundTripCapacity_AsClaimed ==
    \A n \in 1..MaxRun :
        RoundTrip(n) => /\ trace[2 * n].o.len = base.len
                        /\ trace[2 * n].o.capacity = base.capacity

\* C12 as amended: n successful pushes followed by n successful pops return
\* the vector to its length and its elements; they return it to its capacity
\* when the pushes fit (len + n <= capacity) and the vector is not below the
\* shrink threshold (len >= capacity / 4, or capacity <= MIN_CAPACITY), and then
\* no call of the run reallocates.
C12_RoundTripCapacity ==
    \A n \in 1..MaxRun :
        RoundTrip(n) =>
            /\ trace[2 * n].o.len = base.len
            /\ trace[2 * n].o.elems = base.elems
            /\ (/\ base.len + n <= base.capacity
                /\ \/ base.len >= base.capacity \div SHRINK_POLICY
                   \/ base.capacity <= MIN_CAPACITY)
               => /\ trace[2 * n].o.capacity = base.capacity
                  /\ \A i \in 1..(2 * n) : ~trace[i].re

\* C12 witness: MaxRun pushes and MaxRun pops on a vector with room for them.
C12_Witness ==
    /\ RoundTrip(MaxRun)
    /\ base.len = MIN_CAPACITY \div 2
    /\ base.capacity = 2 * MIN_CAPACITY
    /\ trace[2 * MaxRun].o.capacity = base.capacity

\* C13: in a run of pushes and pops, a push that reallocates (growth) is never
\* directly followed by a pop that reallocates (shrink), nor a pop that
\* reallocates by a push that reallocates.
C13_NoThrashing ==
    \A i \in 1..(Len(trace) - 1) :
        (trace[i].name # trace[i + 1].name) => ~(trace[i].re /\ trace[i + 1].re)

\* C13 witness: a push grew a full vector and the pop after it did not shrink it.
C13_Witness ==
    /\ Len(trace) >= 2
    /\ trace[1].name = "push" /\ trace[1].re
    /\ trace[2].name = "pop" /\ trace[2].st = VEC_ERR_OK /\ ~trace[2].re
    /\ trace[2].o.capacity = 2 * base.capacity

\* The last call was name on a live vector and it returned.
CalledOn(names) ==
    /\ op.name \in names
    /\ fault = "none"
    /\ op.h \in DOMAIN pre.heap

\* C14: at idx = len an insert (of a value) appends, unless growing the full
\* vector fails, while get, set and remove (given their other arguments) return
\* IOOB and leave the vector and the output argument as they were; at idx > len
\* an insert returns IOOB without reallocating, also on a full vector.
C14_IndexAtLength ==
    /\ (CalledOn({"insert"}) /\ op.src # NULL /\ op.idx = PreObj.len) =>
          /\ status # VEC_ERR_IOOB
          /\ status = VEC_ERR_OK =>
                (op.h \in DOMAIN heap /\ NowObj.elems = Append(PreObj.elems, op.src))
          /\ status # VEC_ERR_OK =>
                (/\ PreObj.len >= PreObj.capacity
                 /\ status \in {VEC_ERR_NOMEM, VEC_ERR_INVOP}
                 /\ heap = pre.heap)
    /\ (CalledOn({"get"}) /\ op.dst /\ op.idx = PreObj.len) =>
          (status = VEC_ERR_IOOB /\ heap = pre.heap /\ out = NoOut)
    /\ (CalledOn({"set"}) /\ op.src # NULL /\ op.idx = PreObj.len) =>
          (status = VEC_ERR_IOOB /\ heap = pre.heap /\ out = NoOut)
    /\ (CalledOn({"remove"}) /\ op.idx = PreObj.len) =>
          (status = VEC_ERR_IOOB /\ heap = pre.heap /\ out = NoOut)
    /\ (CalledOn({"insert"}) /\ op.src # NULL /\ op.idx > PreObj.len) =>
          (status = VEC_ERR_IOOB /\ heap = pre.heap /\ ~realloc)

\* C14 witness: an insert past the length of a full vector returned IOOB.
C14_Witness ==
    /\ CalledOn({"insert"})
    /\ op.src # NULL
    /\ PreObj.len = PreObj.capacity
    /\ op.idx > PreObj.len
    /\ status = VEC_ERR_IOOB

\* C15: a successful insert(idx, v) makes e[0..idx) ++ [v] ++ e[idx..len) of
\* the elements e[0..len), with and without a growth reallocation.
C15_InsertShifts ==
    Returned({"insert"}, VEC_ERR_OK) =>
        /\ NowObj.len = PreObj.len + 1
        /\ NowObj.elems = SubSeq(PreObj.elems, 1, op.idx) \o <<op.src>>
                          \o SubSeq(PreObj.elems, op.idx + 1, PreObj.len)

\* C15 witness: an insert between two different elements of a full vector,
\* which reallocated.
C15_Witness ==
    /\ Returned({"insert"}, VEC_ERR_OK)
    /\ PreObj.elems = <<"x", "y">>
    /\ PreObj.capacity = 2
    /\ op.idx = 1
    /\ realloc
    /\ NowObj.elems = <<"x", op.src, "y">>

\* C16: a successful remove(idx, out) makes e[0..idx) ++ e[idx+1..len) of the
\* elements e[0..len) and copies e[idx] to out when out is given, with and
\* without a shrink reallocation.
C16_RemoveShifts ==
    Returned({"remove"}, VEC_ERR_OK) =>
        /\ NowObj.len = PreObj.len - 1
        /\ NowObj.elems = SubSeq(PreObj.elems, 1, op.idx)
                          \o SubSeq(PreObj.elems, op.idx + 2, PreObj.len)
        /\ out = IF op.removed THEN OutElem(PreObj.elems[op.idx + 1]) ELSE NoOut

\* C16 witness: the first of three elements was removed to out and the
\* storage shrank.
C16_Witness ==
    /\ Returned({"remove"}, VEC_ERR_OK)
    /\ PreObj.elems = <<"x", "y", "x">>
    /\ op.idx = 0
    /\ op.removed
    /\ realloc
    /\ NowObj.elems = <<"y", "x">>
    /\ out = OutElem("x")

\* The destination of the last call, a clone, after it.
CloneDst == heap[ptr[op.pp]]

\* The last call was a clone of a live vector that returned OK.
Cloned ==
    /\ op.name = "clone"
    /\ fault = "none"
    /\ status = VEC_ERR_OK
    /\ op.h \in DOMAIN pre.heap
    /\ op.pp # NULL

\* C17: after a successful clone(src, dst), into a null dst or into a vector of
\* any capacity, dst has the length of src, vec_get gives the same element
\* from both at every index below it, and src is as it was.
C17_CloneFidelity ==
    Cloned =>
        /\ ptr[op.pp] \in DOMAIN heap
        /\ CloneDst.len = PreObj.len
        /\ \A i \in 0..(PreObj.len - 1) :
              /\ vec_get(M, ptr[op.pp], i, TRUE).st = VEC_ERR_OK
              /\ vec_get(M, ptr[op.pp], i, TRUE).out = vec_get(pre, op.h, i, TRUE).out
        /\ heap[op.h] = pre.heap[op.h]

\* C17 witness: <<"x", "y">> was cloned into a vector of one slot.
C17_Witness ==
    /\ Cloned
    /\ PreObj.elems = <<"x", "y">>
    /\ pre.ptr[op.pp] # NULL
    /\ pre.heap[pre.ptr[op.pp]].capacity = 1
    /\ CloneDst.elems = <<"x", "y">>

\* C18: no two vectors hold the same storage, and a set, insert, remove, fill,
\* clear, resize or destroy of one vector leaves every other vector as it was.
C18_StorageNotShared ==
    /\ \A a \in DOMAIN heap, b \in DOMAIN heap :
          a # b => heap[a].block # heap[b].block
    /\ (op.name \in {"set", "insert", "remove", "fill", "clear", "resize"}
        /\ fault = "none") =>
          \A a \in DOMAIN pre.heap \ {op.h} :
              a \in DOMAIN heap /\ heap[a] = pre.heap[a]
    /\ (op.name = "destroy" /\ fault = "none") =>
          \A a \in DOMAIN pre.heap \ {pre.ptr[op.pp]} :
              a \in DOMAIN heap /\ heap[a] = pre.heap[a]

\* C18 witness: a held <<"x", "y">>, which it can only have as the clone of b;
\* its first element was set and b kept its elements.
C18_Witness ==
    /\ Returned({"set"}, VEC_ERR_OK)
    /\ op.h = ptr["a"]
    /\ PreObj.elems = <<"x", "y">>
    /\ NowObj.elems = <<"y", "y">>
    /\ \E a \in DOMAIN heap \ {op.h} :
          /\ a \in DOMAIN pre.heap
          /\ pre.heap[a].elems = PreObj.elems
          /\ heap[a].elems = PreObj.elems

\* C19: a successful clone that makes or replaces the destination (dst null, or
\* of a capacity below the length of src) leaves it with the capacity
\* len(src); one that does not leaves the capacity of dst.  vec_make raises the
\* capacity it is asked for to MIN_CAPACITY.
C19_CloneCapacity ==
    Cloned =>
        IF pre.ptr[op.pp] = NULL \/ pre.heap[pre.ptr[op.pp]].capacity < PreObj.len
        THEN CloneDst.capacity = PreObj.len
        ELSE CloneDst.capacity = pre.heap[pre.ptr[op.pp]].capacity

\* The elements e after v was written to the slots i, i + 1, ..., n - 1, one
\* after the other.
RECURSIVE NaiveFill(_, _, _, _)
NaiveFill(e, v, i, n) ==
    IF i >= n THEN e
    ELSE NaiveFill(IF i < Len(e) THEN [e EXCEPT ![i + 1] = v] ELSE Append(e, v),
                   v, i + 1, n)

C21_FillOnlyOutOfMemory ==
    /\ (/\ CalledOn({"fill"})
        /\ op.src # NULL
        /\ op.len >= 1
        /\ op.len <= MAX_CAPACITY)
       => /\ status \in {VEC_ERR_OK, VEC_ERR_NOMEM}
          /\ (status = VEC_ERR_OK /\ PreObj.capacity < op.len) =>
                (op.h \in DOMAIN heap /\ NowObj.capacity >= op.len)
    /\ \A h \in HeldA \cap DOMAIN heap, n \in 1..MAX_CAPACITY :
          vec_fill(M, h, "x", n, TRUE).st = VEC_ERR_OK

\* The last call was an extend of a live vector from a live vector and it
\* returned st to its caller.
Extended(st) ==
    /\ op.name = "extend"
    /\ fault # "segv"
    /\ status = st
    /\ op.h \in DOMAIN pre.heap
    /\ op.src \in DOMAIN pre.heap
    /\ op.h \in DOMAIN heap

\* C22: an extend(dst, src) that returns OK leaves dst with the length
\* len(dst) + len(src), its old elements followed by those of src in order, and
\* leaves src as it was; 3 and 4 elements make 7.  When len(src) exceeds the
\* capacity of dst, vec_extend copies past the storage of dst and returns OK.
C22_ExtendAppends ==
    Extended(VEC_ERR_OK) =>
        /\ NowObj.len = PreObj.len + pre.heap[op.src].len
        /\ NowObj.elems = PreObj.elems \o pre.heap[op.src].elems
        /\ fault = "none"
        /\ op.src \in DOMAIN heap
        /\ heap[op.src] = pre.heap[op.src]

\* C23: an extend(dst, src) of two different live vectors of one element size
\* with len(dst) + len(src) <= MAX_CAPACITY returns OK or NOMEM, and OK whenever
\* the allocator answers; with dst = src, and with different element sizes, it
\* returns INVOP and changes nothing.  vec_extend grows through vec_resize,
\* which takes no capacity of MIN_CAPACITY or less.
C23_ExtendOnlyOutOfMemory ==
    /\ (/\ op.name = "extend"
        /\ op.h \in DOMAIN pre.heap
        /\ op.src \in DOMAIN pre.heap)
       => IF op.h = op.src \/ PreObj.elem_size # pre.heap[op.src].elem_size
          THEN fault = "none" /\ status = VEC_ERR_INVOP /\ heap = pre.heap
          ELSE PreObj.len + pre.heap[op.src].len <= MAX_CAPACITY
                  => (fault = "none" /\ status \in {VEC_ERR_OK, VEC_ERR_NOMEM})
    /\ \A d \in DOMAIN heap, s \in DOMAIN heap :
          (/\ fault = "none"
           /\ d # s
           /\ heap[d].elem_size = heap[s].elem_size
           /\ heap[d].len + heap[s].len <= MAX_CAPACITY)
          => vec_extend(M, d, s, TRUE).st = VEC_ERR_OK

\* The handle the last call was made through.
Handle == IF op.name = "destroy" THEN pre.ptr[op.pp] ELSE op.h

\* C24: a destroy that returns OK releases the struct and its storage, and
\* every later call through that handle, a second destroy among them, returns
\* another status than OK and touches no released memory.  vec_free leaves the
\* tag in the released struct and sets only the pointer it was given to NULL.
C24_DestroyedHandleRejected ==
    /\ (op.name = "destroy" /\ fault = "none" /\ status = VEC_ERR_OK) =>
          (pre.ptr[op.pp] \notin DOMAIN heap /\ ptr[op.pp] = NULL)
    /\ (/\ op.name \in {"get", "len", "push", "pop", "destroy"}
        /\ Handle \in Addrs \ DOMAIN pre.heap)
       => (fault = "none" /\ status # VEC_ERR_OK)
    /\ (fault = "none" /\ ptr["a"] = NULL) =>
          vec_destroy(M, "a") = Ret(M, VEC_ERR_NULLPTR)

\* C25 as claimed: on a live vector of no elements pop, first, last and
\* shrink_to_fit return one and the same status, another than OK, write nothing
\* to the output argument and leave the vector as it was.
C25_EmptyRejected_AsClaimed ==
    /\ \A h \in HeldA \cap DOMAIN heap :
          heap[h].len = 0 =>
              /\ vec_pop(M, h, TRUE, TRUE).st # VEC_ERR_OK
              /\ vec_first(M, h, TRUE).st = vec_pop(M, h, TRUE, TRUE).st
              /\ vec_last(M, h, TRUE).st = vec_pop(M, h, TRUE, TRUE).st
              /\ vec_shrink_to_fit(M, h, TRUE).st = vec_pop(M, h, TRUE, TRUE).st
    /\ (CalledOn({"pop", "first", "last", "shrink_to_fit"}) /\ PreObj.len = 0) =>
          (heap = pre.heap /\ out = NoOut)

\* C25 as amended: on a live vector of no elements pop and shrink_to_fit
\* return INVOP, and first and last, given an output argument, return IOOB (the
\* status of vec_get for an index that is not below len); all four write
\* nothing to the output argument, reallocate nothing and leave the vector as
\* it was.  An element that was read would be in the output argument.
C25_EmptyRejected ==
    /\ (CalledOn({"pop", "shrink_to_fit"}) /\ PreObj.len = 0) =>
          status = VEC_ERR_INVOP
    /\ (CalledOn({"first", "last"}) /\ PreObj.len = 0 /\ op.dst) =>
          status = VEC_ERR_IOOB
    /\ (CalledOn({"pop", "first", "last", "shrink_to_fit"}) /\ PreObj.len = 0) =>
          (heap = pre.heap /\ out = NoOut /\ ~realloc)

\* C25 witness: last was called on an empty vector with an output argument
\* and returned IOOB.
C25_Witness ==
    /\ CalledOn({"last"})
    /\ PreObj.len = 0
    /\ op.dst
    /\ status = VEC_ERR_IOOB
    /\ out = NoOut

\* The names of the statuses of the enumeration.
ErrName ==
    (VEC_ERR_OK :> "VEC_ERR_OK") @@ (VEC_ERR_IOOB :> "VEC_ERR_IOOB")
    @@ (VEC_ERR_NULLPTR :> "VEC_ERR_NULLPTR") @@ (VEC_ERR_INVPTR :> "VEC_ERR_INVPTR")
    @@ (VEC_ERR_INVOP :> "VEC_ERR_INVOP") @@ (VEC_ERR_NOMEM :> "VEC_ERR_NOMEM")

\* C26: vec_get_err_msg gives, for each status of the enumeration, the name of
\* that status, so that two statuses never have one text, and NULL for every
\* other value.  VEC_ERR_MSG lists "VEC_ERR_INVOP" twice: the text at the index
\* of VEC_ERR_NOMEM is that of VEC_ERR_INVOP.
C26_ErrorMessage ==
    /\ op.name = "get_err_msg" =>
          out.msg = IF op.err \in DOMAIN ErrName THEN ErrName[op.err] ELSE NULL
    /\ (op.name = "get_err_msg" /\ op.err \in DOMAIN ErrName) =>
          \A t \in DOMAIN ErrName \ {op.err} : vec_get_err_msg(t) # out.msg

\* C27: a swap(i, j) with i # j, both below len, returns OK unless the
\* temporary cannot be allocated; when it returns OK the elements at i and j
\* have changed places, every other element, len and capacity are as they
\* were, and the same swap once more gives the elements back as they were.
\* swap(i, i) returns INVOP for every i and changes nothing.
C27_Swap ==
    /\ (/\ CalledOn({"swap"})
        /\ op.idx # op.idx2
        /\ op.idx < PreObj.len
        /\ op.idx2 < PreObj.len)
       => /\ status \in {VEC_ERR_OK, VEC_ERR_NOMEM}
          /\ status = VEC_ERR_NOMEM => heap = pre.heap
          /\ status = VEC_ERR_OK =>
                /\ NowObj.elems =
                      [k \in 1..PreObj.len |->
                          IF k = op.idx + 1 THEN PreObj.elems[op.idx2 + 1]
                          ELSE IF k = op.idx2 + 1 THEN PreObj.elems[op.idx + 1]
                          ELSE PreObj.elems[k]]
                /\ NowObj.len = PreObj.len
                /\ NowObj.capacity = PreObj.capacity
                /\ ~realloc
                /\ vec_swap(M, op.h, op.idx, op.idx2, TRUE).st = VEC_ERR_OK
                /\ vec_swap(M, op.h, op.idx, op.idx2, TRUE).heap = pre.heap
    /\ Returned({"swap"}, VEC_ERR_OK) =>
          (op.idx # op.idx2 /\ op.idx < PreObj.len /\ op.idx2 < PreObj.len)
    /\ (CalledOn({"swap"}) /\ op.idx = op.idx2) =>
          (status = VEC_ERR_INVOP /\ heap = pre.heap)

\* C27 witness: the first two of the elements "x", "y", "x" were swapped.
C27_Witness ==
    /\ Returned({"swap"}, VEC_ERR_OK)
    /\ PreObj.elems = <<"x", "y", "x">>
    /\ op.idx = 0
    /\ op.idx2 = 1
    /\ NowObj.elems = <<"y", "x", "x">>

\* C28: a make with an element size within MIN_DATA_SIZE..MAX_DATA_SIZE and a
\* pointer variable that holds NULL returns OK unless an allocation fails, and
\* then the variable points to a new vector of no elements whose capacity is
\* max(capacity asked for, MIN_CAPACITY); with another element size it returns
\* INVOP and the variable stays NULL; with a variable that holds a vector it
\* returns INVOP and the variable and the vector stay as they were.
C28_Make ==
    (op.name = "make" /\ fault = "none" /\ op.pp # NULL) =>
        IF op.elem_size < MIN_DATA_SIZE \/ op.elem_size > MAX_DATA_SIZE
        THEN status = VEC_ERR_INVOP /\ heap = pre.heap /\ ptr = pre.ptr
        ELSE IF pre.ptr[op.pp] # NULL
        THEN /\ status = VEC_ERR_INVOP
             /\ heap = pre.heap
             /\ ptr = pre.ptr
             /\ vec_make(pre, op.pp, op.elem_size, op.capacity, <<TRUE, TRUE>>).st
                    = VEC_ERR_INVOP
        ELSE /\ status \in {VEC_ERR_OK, VEC_ERR_NOMEM}
             /\ vec_make(pre, op.pp, op.elem_size, op.capacity, <<TRUE, TRUE>>).st
                    = VEC_ERR_OK
             /\ status = VEC_ERR_NOMEM => (heap = pre.heap /\ ptr = pre.ptr)
             /\ status = VEC_ERR_OK =>
                    /\ ptr[op.pp] \in DOMAIN heap \ DOMAIN pre.heap
                    /\ heap[ptr[op.pp]].magic = VEC_MAGIC
                    /\ heap[ptr[op.pp]].len = 0
                    /\ heap[ptr[op.pp]].elems = <<>>
                    /\ heap[ptr[op.pp]].capacity = Max(op.capacity, MIN_CAPACITY)
                    /\ heap[ptr[op.pp]].elem_size = op.elem_size
                    /\ \A s \in Slots \ {op.pp} : ptr[s] = pre.ptr[s]
                    /\ \A a \in DOMAIN pre.heap : heap[a] = pre.heap[a]

\* C28 witness: a second vector was made, with one slot more than MIN_CAPACITY.
C28_Witness ==
    /\ op.name = "make"
    /\ fault = "none"
    /\ status = VEC_ERR_OK
    /\ op.capacity = MIN_CAPACITY + 1
    /\ pre.ptr["a"] # NULL
    /\ op.pp = "b"
    /\ heap[ptr["b"]].capacity = MIN_CAPACITY + 1
    /\ heap[ptr["b"]].len = 0

\* C29: a resize(c) of a live vector is taken exactly when
\* MIN_CAPACITY < c <= MAX_CAPACITY: then it returns OK unless the allocation
\* fails, and leaves the capacity c, the length min(len, c) and the first
\* min(len, c) elements; every other c, MIN_CAPACITY and MAX_CAPACITY + 1 among
\* them, returns INVOP and changes nothing.
C29_Resize ==
    CalledOn({"resize"}) =>
        IF op.capacity > MIN_CAPACITY /\ op.capacity <= MAX_CAPACITY
        THEN /\ status \in {VEC_ERR_OK, VEC_ERR_NOMEM}
             /\ vec_resize(pre, op.h, op.capacity, TRUE).st = VEC_ERR_OK
             /\ status = VEC_ERR_NOMEM => (heap = pre.heap /\ ~realloc)
             /\ status = VEC_ERR_OK =>
                    /\ NowObj.capacity = op.capacity
                    /\ NowObj.len = Min(PreObj.len, op.capacity)
                    /\ NowObj.elems = SubSeq(PreObj.elems, 1, Min(PreObj.len, op.capacity))
                    /\ realloc
        ELSE status = VEC_ERR_INVOP /\ heap = pre.heap /\ ~realloc

\* C29 witness: a vector of 2 * MIN_CAPACITY elements, with "y" in slot
\* MIN_CAPACITY, was resized to MIN_CAPACITY + 1 and kept that many elements.
C29_Witness ==
    /\ Returned({"resize"}, VEC_ERR_OK)
    /\ PreObj.len = 2 * MIN_CAPACITY
    /\ op.capacity = MIN_CAPACITY + 1
    /\ NowObj.len = MIN_CAPACITY + 1
    /\ NowObj.capacity = MIN_CAPACITY + 1
    /\ NowObj.elems[MIN_CAPACITY + 1] = "y"
    /\ NowObj.elems[1] = "x"

\* C30: a shrink_to_fit of a live vector of one or more elements returns OK
\* unless the allocation fails, and leaves the capacity equal to len, with len
\* and the elements as they were; when the capacity is len already it returns
\* OK and reallocates nothing.
C30_ShrinkToFit ==
    (CalledOn({"shrink_to_fit"}) /\ PreObj.len > 0) =>
        /\ status \in {VEC_ERR_OK, VEC_ERR_NOMEM}
        /\ vec_shrink_to_fit(pre, op.h, TRUE).st = VEC_ERR_OK
        /\ status = VEC_ERR_NOMEM =>
              (heap = pre.heap /\ ~realloc /\ PreObj.capacity # PreObj.len)
        /\ status = VEC_ERR_OK =>
              /\ NowObj.capacity = NowObj.len
              /\ NowObj.len = PreObj.len
              /\ NowObj.elems = PreObj.elems
              /\ realloc = (PreObj.capacity # PreObj.len)
        /\ PreObj.capacity = PreObj.len =>
              (status = VEC_ERR_OK /\ ~realloc /\ heap = pre.heap)

\* C30 witness: the elements "x", "y" in MIN_CAPACITY slots were shrunk to fit.
C30_Witness ==
    /\ Returned({"shrink_to_fit"}, VEC_ERR_OK)
    /\ PreObj.elems = <<"x", "y">>
    /\ PreObj.capacity = MIN_CAPACITY
    /\ NowObj.elems = <<"x", "y">>
    /\ NowObj.capacity = 2
    /\ realloc

\* C31: a clear that returns OK leaves no elements and the capacity
\* min(capacity, MIN_CAPACITY): a storage of more than MIN_CAPACITY slots is
\* replaced by one of MIN_CAPACITY slots, any other storage and its capacity
\* are kept; a second clear returns OK, allocates nothing and changes nothing.
C31_Clear ==
    /\ CalledOn({"clear"}) =>
          /\ status \in {VEC_ERR_OK, VEC_ERR_NOMEM}
          /\ status = VEC_ERR_NOMEM =>
                (PreObj.capacity > MIN_CAPACITY /\ heap = pre.heap)
    /\ Returned({"clear"}, VEC_ERR_OK) =>
          /\ NowObj.len = 0
          /\ NowObj.elems = <<>>
          /\ NowObj.capacity = Min(PreObj.capacity, MIN_CAPACITY)
          /\ realloc = (PreObj.capacity > MIN_CAPACITY)
          /\ (NowObj.block # PreObj.block) = (PreObj.capacity > MIN_CAPACITY)
          /\ vec_clear(M, op.h, FALSE) = Ret(M, VEC_ERR_OK)
          /\ vec_clear(M, op.h, TRUE) = Ret(M, VEC_ERR_OK)

\* C31 witness: a vector of MIN_CAPACITY + 1 slots that held elements was
\* cleared.
C31_Witness ==
    /\ Returned({"clear"}, VEC_ERR_OK)
    /\ PreObj.capacity = MIN_CAPACITY + 1
    /\ PreObj.len > 0
    /\ NowObj.capacity = MIN_CAPACITY
    /\ NowObj.len = 0
    /\ realloc

\* C32: a truncate(n) with n >= len returns OK and changes nothing; one with
\* n < len leaves the length n and the first n elements, and, when it returns
\* OK, the capacity max(capacity / 2, MIN_CAPACITY) if n < capacity / 4 and
\* capacity > MIN_CAPACITY, and the capacity it had if not.  It returns NOMEM,
\* with the capacity it had, only when that reallocation fails.
C32_Truncate ==
    CalledOn({"truncate"}) =>
        IF op.len >= PreObj.len
        THEN status = VEC_ERR_OK /\ heap = pre.heap /\ ~realloc
        ELSE /\ status \in {VEC_ERR_OK, VEC_ERR_NOMEM}
             /\ NowObj.len = op.len
             /\ NowObj.elems = SubSeq(PreObj.elems, 1, op.len)
             /\ status = VEC_ERR_OK =>
                   /\ NowObj.capacity =
                         IF op.len < PreObj.capacity \div 4
                            /\ PreObj.capacity > MIN_CAPACITY
                         THEN Max(PreObj.capacity \div 2, MIN_CAPACITY)
                         ELSE PreObj.capacity
                   /\ realloc = (NowObj.capacity # PreObj.capacity)
             /\ status = VEC_ERR_NOMEM =>
                   /\ NowObj.capacity = PreObj.capacity
                   /\ op.len < PreObj.capacity \div 4
                   /\ PreObj.capacity > MIN_CAPACITY

\* C32 witness: MIN_CAPACITY elements in 2 * MIN_CAPACITY slots, "y" first,
\* were truncated to one less than a quarter of the capacity, which halved it.
C32_Witness ==
    /\ Returned({"truncate"}, VEC_ERR_OK)
    /\ PreObj.len = MIN_CAPACITY
    /\ PreObj.capacity = 2 * MIN_CAPACITY
    /\ PreObj.elems[1] = "y"
    /\ op.len = MIN_CAPACITY \div 2 - 1
    /\ NowObj.len = MIN_CAPACITY \div 2 - 1
    /\ NowObj.elems[1] = "y"
    /\ NowObj.capacity = MIN_CAPACITY

\* C33: a set(idx, v, old) with idx < len and a value v returns OK; after it
\* get(idx) gives v, old holds the element that was at idx when old is given
\* and is not written when it is not, and every other element, len and
\* capacity are as they were.
C33_SetReplaces ==
    /\ (CalledOn({"set"}) /\ op.src # NULL /\ op.idx < PreObj.len) =>
          status = VEC_ERR_OK
    /\ Returned({"set"}, VEC_ERR_OK) =>
          /\ op.idx < PreObj.len
          /\ vec_get(M, op.h, op.idx, TRUE).st = VEC_ERR_OK
          /\ vec_get(M, op.h, op.idx, TRUE).out = OutElem(op.src)
          /\ out = IF op.old THEN vec_get(pre, op.h, op.idx, TRUE).out ELSE NoOut
          /\ \A k \in 0..(PreObj.len - 1) :
                k # op.idx => vec_get(M, op.h, k, TRUE).out = vec_get(pre, op.h, k, TRUE).out
          /\ NowObj.len = PreObj.len
          /\ NowObj.capacity = PreObj.capacity
          /\ ~realloc

\* C33 witness: the "x" in the middle of three elements was replaced by "y"
\* and copied to old.
C33_Witness ==
    /\ Returned({"set"}, VEC_ERR_OK)
    /\ PreObj.elems = <<"y", "x", "x">>
    /\ op.idx = 1
    /\ op.src = "y"
    /\ op.old
    /\ out = OutElem("x")
    /\ NowObj.elems = <<"y", "y", "x">>

\* C34: an extend(dst, src) that returns OK has reallocated dst exactly when
\* capacity(dst) - len(dst) < len(src), and after a reallocation capacity(dst)
\* is len(dst) + len(src) of before the call.  vec_extend tests
\* capacity - len(src) < len(dst) in size_t: with len(src) above capacity(dst)
\* the difference wraps and nothing is reallocated.
C34_ExtendReallocates ==
    Extended(VEC_ERR_OK) =>
        /\ realloc <=> (PreObj.capacity - PreObj.len < pre.heap[op.src].len)
        /\ realloc => NowObj.capacity = PreObj.len + pre.heap[op.src].len

\* The last call ended as the call with the result r ends: the same fault and,
\* when the process lives, the same status, memory, output and reallocation.
EndedAs(r) ==
    /\ fault = r.fault
    /\ fault = "none" =>
          /\ status = r.st
          /\ heap = r.heap
          /\ ptr = r.ptr
          /\ out = r.out
          /\ realloc = r.re

\* The len field a caller reads through the handle of the last call before
\* the call (0 through NULL, where no index makes a difference).
LenBefore == IF op.h = NULL THEN 0 ELSE Deref(pre, op.h).len

\* C35: whatever the handle (NULL, no vector, an empty vector, a vector with
\* elements, a full one), a push(v) ends as insert(len, v) on the same memory
\* ends, and a pop(out) as remove(len - 1, out).  vec_push reads vec->len
\* before any check, and vec_pop answers for an empty vector itself.
C35_PushPopAsInsertRemove ==
    /\ op.name = "push" =>
          \E ok \in BOOLEAN : EndedAs(vec_insert(pre, op.h, LenBefore, op.src, ok))
    /\ op.name = "pop" =>
          \E ok \in BOOLEAN :
              EndedAs(vec_remove(pre, op.h, SizeSub(LenBefore, 1), op.removed, ok))

\* C36: after a fill(v, n) that the allocator did not fail, the same fill(v, n)
\* again, whatever the allocator would answer, returns the same status,
\* reallocates nothing and leaves the memory (length, capacity, elements) as
\* the first left it; so does every further repetition, the state being the
\* same.  A fill that returned NOMEM has changed nothing.
C36_FillIdempotent ==
    /\ (CalledOn({"fill"}) /\ status # VEC_ERR_NOMEM) =>
          \A ok \in BOOLEAN :
              LET again == vec_fill(M, op.h, op.src, op.len, ok)
              IN  /\ again.fault = "none"
                  /\ again.st = status
                  /\ again.heap = heap
                  /\ ~again.re
    /\ (CalledOn({"fill"}) /\ status = VEC_ERR_NOMEM) => heap = pre.heap

\* C36 witness: a fill(v, 17) that overwrote elements and reallocated a storage
\* of 16 slots to 17, after which the same fill reallocates nothing.
C36_Witness ==
    /\ Returned({"fill"}, VEC_ERR_OK)
    /\ realloc
    /\ PreObj.len > 0
    /\ PreObj.capacity = MIN_CAPACITY
    /\ op.len = MIN_CAPACITY + 1
    /\ NowObj.capacity = MIN_CAPACITY + 1
    /\ op.src \notin {PreObj.elems[i] : i \in 1..PreObj.len}
    /\ ~vec_fill(M, op.h, op.src, op.len, TRUE).re

\* The elements a remove, pop or truncate is to leave of the vector it was
\* called on.
Remaining ==
    IF op.name = "truncate" THEN Take(PreObj.elems, op.len)
    ELSE IF op.name = "pop" THEN Take(PreObj.elems, PreObj.len - 1)
    ELSE Take(PreObj.elems, op.idx) \o SubSeq(PreObj.elems, op.idx + 2, PreObj.len)

\* C37: a remove, pop or truncate that shrinks the storage leaves a capacity
\* that is smaller than before and not below the length the operation set:
\* the length is that length (one less, or the truncate's argument), not the
\* new capacity, and the remaining elements are all there.
C37_ShrinkKeepsLength ==
    (Returned({"remove", "pop", "truncate"}, VEC_ERR_OK) /\ realloc) =>
        /\ NowObj.capacity < PreObj.capacity
        /\ NowObj.capacity >= Len(Remaining)
        /\ NowObj.len = Len(Remaining)
        /\ NowObj.elems = Remaining

\* C37 witness: a pop from 31 elements in MAX_CAPACITY slots leaves 30, below
\* a quarter of the capacity, and the storage shrinks to half.
C37_Witness ==
    /\ Returned({"pop"}, VEC_ERR_OK)
    /\ realloc
    /\ PreObj.capacity = MAX_CAPACITY
    /\ PreObj.len = MAX_CAPACITY \div SHRINK_POLICY
    /\ NowObj.capacity = MAX_CAPACITY \div SHRINK_FACTOR
    /\ NowObj.len = MAX_CAPACITY \div SHRINK_POLICY - 1

====
